---- MODULE Spec2Model ----
(***************************************************************************)
(* A model of the connection pool of go-tarantool (package pool):          *)
(* ConnectWithOpts / Add / Remove / Close / CloseGraceful, the per-endpoint *)
(* controller goroutine, the role probe and the mode based dispatch.        *)
(*                                                                         *)
(* Granularity.  One action is one atomic region of the code: a critical   *)
(* section of addrsMutex or poolsMutex, an atomic operation on p.state, a   *)
(* channel operation, or a call of a user handler.  p.state is an atomic   *)
(* that Close/CloseGraceful change without taking any mutex, so a critical *)
(* section that tests p.state and then ADDS something (tryConnect,         *)
(* updateConnection, Add) is two actions with the mutex held in between;   *)
(* a critical section that tests p.state and then only removes is one      *)
(* action.                                                                  *)
(***************************************************************************)
EXTENDS Integers, Sequences, FiniteSets, TLC

\* ------------------------------------------------------------------ bounds
\* Endpoint records ever created (fillPools + Add) and connections ever
\* dialled in one behaviour.
MaxEndpoints == 3
MaxConns == 2
\* Calls of Add, Remove, Close and CloseGraceful made in one run.
MaxCalls == 2
MaxCloseCalls == 2
\* The pool watchers created, and the events a connection delivers to one.
MaxWatchers == 2
MaxEvents == 1

\* ------------------------------------------------------------- vocabulary
Nil == 0

Addrs == {"a1", "a2"}

UnknownRole == "unknown"
MasterRole == "master"
ReplicaRole == "replica"
Roles == {UnknownRole, MasterRole, ReplicaRole}

ANY == "ANY"
RW == "RW"
RO == "RO"
PreferRW == "PreferRW"
PreferRO == "PreferRO"
Modes == {ANY, RW, RO, PreferRW, PreferRO}

unknownState == "unknown"
connectedState == "connected"
shutdownState == "shutdown"
closedState == "closed"

NoErr == "nil"
ErrNoConnection == "ErrNoConnection"
ErrIncorrectResponse == "ErrIncorrectResponse"
ErrIncorrectStatus == "ErrIncorrectStatus"
ErrNoRwInstance == "ErrNoRwInstance"
ErrNoRoInstance == "ErrNoRoInstance"
ErrNoHealthyInstance == "ErrNoHealthyInstance"
ErrUnknownRequest == "ErrUnknownRequest"
ErrExists == "ErrExists"
ErrClosed == "ErrClosed"
ErrContextCanceled == "ErrContextCanceled"
ErrNotExist == "endpoint not exist"
ErrTransport == "transport error"
ErrCanceled == "storing connection canceled"
ErrWatch == "watch failed"
\* A failed single-value type assertion: a run-time panic, not an error value.
Panic == "panic"

EndpointIds == 1..MaxEndpoints
ConnIds == 1..MaxConns
WatcherIds == 1..MaxWatchers

\* ------------------------------------------------- round-robin subpool
\* roundRobinStrategy: the ordered (addr, conn) entries and the cursor.
EmptyPool == [conns |-> <<>>, current |-> 0]

IndexByAddr(rr, addr) ==
    IF \E i \in 1..Len(rr.conns) : rr.conns[i].addr = addr
    THEN CHOOSE i \in 1..Len(rr.conns) : rr.conns[i].addr = addr
    ELSE 0

IsEmpty(rr) == Len(rr.conns) = 0

GetConnByAddr(rr, addr) ==
    IF IndexByAddr(rr, addr) = 0 THEN Nil ELSE rr.conns[IndexByAddr(rr, addr)].conn

\* add: append if the address is new, replace the entry's conn otherwise.
AddConn(rr, addr, conn) ==
    LET i == IndexByAddr(rr, addr) IN
    IF i = 0
    THEN [rr EXCEPT !.conns = Append(@, [addr |-> addr, conn |-> conn])]
    ELSE [rr EXCEPT !.conns[i].conn = conn]

RemoveAt(s, i) == SubSeq(s, 1, i - 1) \o SubSeq(s, i + 1, Len(s))

\* deleteByAddr: the pool without the entry; the cursor wraps to the
\* remaining size.  The removed conn is GetConnByAddr before the call.
DeleteConnByAddr(rr, addr) ==
    LET i == IndexByAddr(rr, addr) IN
    IF i = 0 THEN rr
    ELSE LET left == RemoveAt(rr.conns, i) IN
         [conns |-> left,
          current |-> IF Len(left) = 0 THEN 0 ELSE rr.current % Len(left)]

\* next: the conn at the cursor (Nil iff empty) ...
NextConn(rr) ==
    IF IsEmpty(rr) THEN Nil ELSE rr.conns[(rr.current % Len(rr.conns)) + 1].conn

\* ... and the pool with the cursor advanced by one modulo the size.
Advance(rr) ==
    IF IsEmpty(rr) THEN rr
    ELSE [rr EXCEPT !.current = (rr.current + 1) % Len(rr.conns)]

GetConnections(rr) == {rr.conns[i].conn : i \in 1..Len(rr.conns)}

PoolAddrs(rr) == {rr.conns[i].addr : i \in 1..Len(rr.conns)}

\* ---------------------------------------------------------- role probe
\* A MessagePack value of a box.info reply, as a tagged string.
Absent == "absent"
StatusVals == {Absent, "s:running", "s:orphan", "s:loading", "i:1"}
RoVals == {Absent, "b:false", "b:true", "s:true", "i:0", "nil"}

MapData == [kind : {"map"}, status : StatusVals, ro : RoVals]
ScalarData == [kind : {"int", "str"}, status : {Absent}, ro : {Absent}]
Datum == MapData \cup ScalarData

\* A reply of conn.Do(NewCallRequest("box.info")).Get(): a transport error,
\* a nil response, or a response with its Data.
Replies(tail) ==
    {[err |-> TRUE, resp |-> FALSE, data |-> <<>>],
     [err |-> FALSE, resp |-> FALSE, data |-> <<>>],
     [err |-> FALSE, resp |-> TRUE, data |-> <<>>]}
    \cup {[err |-> FALSE, resp |-> TRUE, data |-> <<d>>] : d \in Datum}
    \cup {[err |-> FALSE, resp |-> TRUE, data |-> <<d, t>>] : d \in Datum, t \in tail}

Result(role, err) == [role |-> role, err |-> err]

getConnectionRole(reply) ==
    IF reply.err THEN Result(UnknownRole, ErrTransport)
    ELSE IF ~reply.resp THEN Result(UnknownRole, ErrIncorrectResponse)
    ELSE IF Len(reply.data) < 1 THEN Result(UnknownRole, ErrIncorrectResponse)
    ELSE IF reply.data[1].kind # "map" THEN Result(UnknownRole, Panic)
    ELSE IF reply.data[1].status = Absent THEN Result(UnknownRole, ErrIncorrectResponse)
    ELSE IF reply.data[1].status # "s:running" THEN Result(UnknownRole, ErrIncorrectStatus)
    ELSE IF reply.data[1].ro = Absent THEN Result(UnknownRole, ErrIncorrectResponse)
    ELSE IF reply.data[1].ro = "b:false" THEN Result(MasterRole, NoErr)
    ELSE IF reply.data[1].ro = "b:true" THEN Result(ReplicaRole, NoErr)
    ELSE Result(UnknownRole, NoErr)

\* ------------------------------------------------------------ dispatch
\* getNextConnection: the subpools tried, in order, and the error when all
\* of them are empty.  Pools are "rw", "ro", "any".
Sel(conn, pool, err) == [conn |-> conn, pool |-> pool, err |-> err]

\* getNextConnection with PreferRW trying roPool first.
getNextConnection_PreferSwapped(mode, rw, ro, any) ==
    CASE mode = ANY ->
           IF NextConn(any) # Nil THEN Sel(NextConn(any), "any", NoErr)
           ELSE Sel(Nil, "none", ErrNoHealthyInstance)
      [] mode = RW ->
           IF NextConn(rw) # Nil THEN Sel(NextConn(rw), "rw", NoErr)
           ELSE Sel(Nil, "none", ErrNoRwInstance)
      [] mode = RO ->
           IF NextConn(ro) # Nil THEN Sel(NextConn(ro), "ro", NoErr)
           ELSE Sel(Nil, "none", ErrNoRoInstance)
      [] mode = PreferRW ->
           IF NextConn(ro) # Nil THEN Sel(NextConn(ro), "ro", NoErr)
           ELSE IF NextConn(rw) # Nil THEN Sel(NextConn(rw), "rw", NoErr)
           ELSE Sel(Nil, "none", ErrNoHealthyInstance)
      [] mode = PreferRO ->
           IF NextConn(ro) # Nil THEN Sel(NextConn(ro), "ro", NoErr)
           ELSE IF NextConn(rw) # Nil THEN Sel(NextConn(rw), "rw", NoErr)
           ELSE Sel(Nil, "none", ErrNoHealthyInstance)
      [] OTHER -> Sel(Nil, "none", ErrNoHealthyInstance)

getNextConnection(mode, rw, ro, any) ==
    CASE mode = ANY ->
           IF NextConn(any) # Nil THEN Sel(NextConn(any), "any", NoErr)
           ELSE Sel(Nil, "none", ErrNoHealthyInstance)
      [] mode = RW ->
           IF NextConn(rw) # Nil THEN Sel(NextConn(rw), "rw", NoErr)
           ELSE Sel(Nil, "none", ErrNoRwInstance)
      [] mode = RO ->
           IF NextConn(ro) # Nil THEN Sel(NextConn(ro), "ro", NoErr)
           ELSE Sel(Nil, "none", ErrNoRoInstance)
      [] mode = PreferRW ->
           IF NextConn(rw) # Nil THEN Sel(NextConn(rw), "rw", NoErr)
           ELSE IF NextConn(ro) # Nil THEN Sel(NextConn(ro), "ro", NoErr)
           ELSE Sel(Nil, "none", ErrNoHealthyInstance)
      [] mode = PreferRO ->
           IF NextConn(ro) # Nil THEN Sel(NextConn(ro), "ro", NoErr)
           ELSE IF NextConn(rw) # Nil THEN Sel(NextConn(rw), "rw", NoErr)
           ELSE Sel(Nil, "none", ErrNoHealthyInstance)
      [] OTHER -> Sel(Nil, "none", ErrNoHealthyInstance)

\* getConnectionFromPool: the conn registered under addr and its role.
getConnectionFromPool(addr, rw, ro, any) ==
    IF GetConnByAddr(rw, addr) # Nil
    THEN [conn |-> GetConnByAddr(rw, addr), role |-> MasterRole]
    ELSE IF GetConnByAddr(ro, addr) # Nil
    THEN [conn |-> GetConnByAddr(ro, addr), role |-> ReplicaRole]
    ELSE [conn |-> GetConnByAddr(any, addr), role |-> UnknownRole]

\* ------------------------------------------------------- pool watchers
\* A poolWatcher: pc is the position of the NewWatcher call that creates it
\* ("none": not created, "watch": in the loop over the connections, "live":
\* returned to the caller, "unregistered": Unregister has returned), todo
\* the connections of the loop not watched yet, att the connections that
\* hold a subscription of the watcher, calls the callback invocations.
NoWatcher == [pc |-> "none", mode |-> ANY, todo |-> {}, att |-> {}, calls |-> 0]

\* The modes NewWatcher is called with.
WatcherModes == {ANY, RW, RO}

\* The switch of addConnection: the roles a watcher of a mode watches.
Matches(mode, role) ==
    CASE mode = RW -> role = MasterRole
      [] mode = RO -> role = ReplicaRole
      [] OTHER -> TRUE

\* watcher.watch(conn) that succeeds, and watcher.unwatch(conn).
watch(ws, w, c) == [ws EXCEPT ![w].att = @ \cup {c}]
unwatch(ws, w, c) == [ws EXCEPT ![w].att = @ \ {c}]

\* watcherContainer.foreach over unwatch: reg is the part of the registry
\* to visit.
RECURSIVE unwatchEach(_, _, _)
unwatchEach(ws, reg, c) ==
    IF reg = <<>> THEN ws ELSE unwatchEach(unwatch(ws, Head(reg), c), Tail(reg), c)

\* The watchers addConnection has watched when it reaches position n of
\* the registry: those before n whose mode matches the role.
Watched(p, role, n) ==
    SelectSeq(SubSeq(p.registry, 1, n - 1),
              LAMBDA w : Matches(p.watchers[w].mode, role))

RECURSIVE watchEach(_, _, _)
watchEach(ws, reg, c) ==
    IF reg = <<>> THEN ws ELSE watchEach(watch(ws, Head(reg), c), Tail(reg), c)

\* The positions of the registry at which a watch of addConnection can
\* fail (0: none fails).
WatchFailures(p, role) ==
    {0} \cup {n \in 1..Len(p.registry) : Matches(p.watchers[p.registry[n]].mode, role)}

\* deleteConnection: the three subpools after deleting addr.  The role
\* subpools are touched only when anyPool held the address, and roPool only
\* when rwPool did not; every watcher of the registry unwatches the
\* connection deleted.
deleteConnection(p, addr) ==
    IF GetConnByAddr(p.any, addr) = Nil THEN p
    ELSE LET ws == unwatchEach(p.watchers, p.registry, GetConnByAddr(p.any, addr)) IN
         IF GetConnByAddr(p.rw, addr) # Nil
         THEN [p EXCEPT !.any = DeleteConnByAddr(@, addr), !.rw = DeleteConnByAddr(@, addr),
                        !.watchers = ws]
         ELSE [p EXCEPT !.any = DeleteConnByAddr(@, addr), !.ro = DeleteConnByAddr(@, addr),
                        !.watchers = ws]

\* addConnection that leaves the watchers it has watched attached when a
\* later watch fails.
addConnection_NoUnwind(p, addr, conn, role, fail) ==
    IF fail # 0
    THEN [err |-> ErrWatch,
          pools |-> [p EXCEPT !.watchers = watchEach(@, Watched(p, role, fail), conn),
                              !.failed = conn]]
    ELSE LET q == [p EXCEPT !.any = AddConn(@, addr, conn),
                            !.watchers = watchEach(@, Watched(p, role, Len(p.registry) + 1),
                                                   conn)]
         IN [err |-> NoErr,
             pools |-> CASE role = MasterRole -> [q EXCEPT !.rw = AddConn(@, addr, conn)]
                         [] role = ReplicaRole -> [q EXCEPT !.ro = AddConn(@, addr, conn)]
                         [] OTHER -> q]

\* addConnection: every watcher of the registry whose mode matches the role
\* watches the connection; when the watch at position fail of the registry
\* fails, the watchers that have watched unwatch, the failure is logged
\* (failed is the connection of the last line logged) and the error is
\* returned; else anyPool, then the role's subpool.
addConnection(p, addr, conn, role, fail) ==
    IF fail # 0
    THEN [err |-> ErrWatch,
          pools |-> [p EXCEPT !.watchers =
                        unwatchEach(watchEach(@, Watched(p, role, fail), conn),
                                    Watched(p, role, fail), conn),
                              !.failed = conn]]
    ELSE LET q == [p EXCEPT !.any = AddConn(@, addr, conn),
                            !.watchers = watchEach(@, Watched(p, role, Len(p.registry) + 1),
                                                   conn)]
         IN [err |-> NoErr,
             pools |-> CASE role = MasterRole -> [q EXCEPT !.rw = AddConn(@, addr, conn)]
                         [] role = ReplicaRole -> [q EXCEPT !.ro = AddConn(@, addr, conn)]
                         [] OTHER -> q]

\* ================================================================ state
VARIABLES
    state,       \* p.state
    addrs,       \* p.addrs: address -> endpoint id, Nil (key with a nil value) or NoKey
    ep,          \* the endpoint records and the task working on each
    conn,        \* the connections dialled so far
    pools,       \* rwPool, roPool, anyPool, and watcherContainer with its watchers
    poolsMutex,  \* Nil, the endpoint whose task holds p.poolsMutex, or Reader
    addrsMutex,  \* "free", or the thread that holds p.addrsMutex
    ctor,        \* ConnectWithOpts: position, addresses still to fill, result
    th,          \* the callers of Add, Remove, Close and CloseGraceful
    probe,       \* role probe specification: the reply and the result
    route        \* dispatch specification: the mode asked and the selection

vars == <<state, addrs, ep, conn, pools, poolsMutex, addrsMutex, ctor, th, probe, route>>

NoKey == -1

Threads == {"close", "graceful", "add", "add2", "remove", "info"}

\* The callers of Add.
AddThreads == {"add", "add2"}

\* newEndpoint, before it is given an address: an unused record.  panic
\* tells that a channel of the endpoint has been closed a second time.
FreeEndpoint ==
    [used |-> FALSE, addr |-> "", conn |-> Nil, role |-> UnknownRole,
     shutdown |-> FALSE, close |-> FALSE, closed |-> FALSE, closeErr |-> FALSE,
     notify |-> FALSE, panic |-> FALSE,
     pc |-> "none", owner |-> "none", lshut |-> FALSE, lconn |-> Nil,
     lrole |-> UnknownRole, lerr |-> NoErr, child |-> "none"]

newEndpoint(addr) == [FreeEndpoint EXCEPT !.used = TRUE, !.addr = addr]

\* A connection not dialled yet.  hst, hrole and herr are what the
\* ConnectionHandler has been told about the connection: the outcome of the
\* last call ("none", "discovered", "refused", "deactivated"), the role of
\* the last Discovered, and the first call that broke the handler's contract.
FreeConn == [used |-> FALSE, closed |-> FALSE, addr |-> "", ep |-> Nil,
             hst |-> "none", hrole |-> UnknownRole, herr |-> "ok"]

\* A caller before its call.  calls counts the calls that have returned;
\* cas is the outcome of the state swap of the call; reg is the set of
\* endpoints whose connection was in the subpools when CloseGraceful was
\* called; before is what GetAddrs gave when Add was called.
IdleThread == [pc |-> "idle", addr |-> "", e |-> Nil, snap |-> {}, done |-> FALSE,
               err |-> NoErr, errs |-> {}, calls |-> 0, cas |-> FALSE, reg |-> {},
               before |-> {}]

IdleProbe == [pc |-> "off", reply |-> [err |-> TRUE, resp |-> FALSE, data |-> <<>>],
              res |-> Result(UnknownRole, NoErr)]

EmptyPools == [rw |-> EmptyPool, ro |-> EmptyPool, any |-> EmptyPool,
               registry |-> <<>>, watchers |-> [w \in WatcherIds |-> NoWatcher],
               failed |-> Nil]

IdleRoute == [pc |-> "off", mode |-> ANY, sel |-> Sel(Nil, "none", NoErr),
              before |-> EmptyPools, req |-> Nil,
              prev |-> [called |-> FALSE, mode |-> ANY, conn |-> Nil]]

\* The address sets a pool is constructed with.
InitAddrSets == {{"a1"}}

\* The callers of one run: at most MaxCalls of Add, Remove, Close and
\* CloseGraceful are called, each once, concurrently.
CallSets == {S \in SUBSET (Threads \ {"add2", "info"}) : Cardinality(S) <= MaxCalls}

\* The replies an instance gives to the controller's probes: one per outcome
\* of getConnectionRole that returns (no panic).
PoolReplies ==
    {[err |-> TRUE, resp |-> FALSE, data |-> <<>>],
     [err |-> FALSE, resp |-> TRUE,
      data |-> <<[kind |-> "map", status |-> "s:orphan", ro |-> "b:false"]>>],
     [err |-> FALSE, resp |-> TRUE,
      data |-> <<[kind |-> "map", status |-> "s:running", ro |-> "b:false"]>>],
     [err |-> FALSE, resp |-> TRUE,
      data |-> <<[kind |-> "map", status |-> "s:running", ro |-> "b:true"]>>],
     [err |-> FALSE, resp |-> TRUE,
      data |-> <<[kind |-> "map", status |-> "s:running", ro |-> "s:true"]>>]}

FreeEndpoints == {e \in EndpointIds : ~ep[e].used}
FreshEndpoint == CHOOSE e \in FreeEndpoints : \A f \in FreeEndpoints : e <= f
FreeConns == {c \in ConnIds : ~conn[c].used}
FreshConn == CHOOSE c \in FreeConns : \A d \in FreeConns : c <= d

InMap == {e \in EndpointIds : \E a \in Addrs : addrs[a] = e}

\* conn.Close(): the connection is closed (its error is the caller's input).
CloseConn(cs, c) == [cs EXCEPT ![c].closed = TRUE]

\* tarantool.Connect: the record of the connection c dialled for endpoint e.
Dialled(a, e) == [FreeConn EXCEPT !.used = TRUE, !.addr = a, !.ep = e]

\* handlerDiscovered(c, role): the handler's Discovered is called and
\* answers nil (opened) or an error.
handlerDiscovered(cs, c, role, opened) ==
    [cs EXCEPT ![c].hst = IF opened THEN "discovered" ELSE "refused",
               ![c].hrole = role,
               ![c].herr = IF cs[c].herr = "ok" /\ cs[c].hst = "discovered"
                           THEN "discovered twice" ELSE @]

\* handlerDeactivated(c, role): the handler's Deactivated is called.
handlerDeactivated(cs, c, role) ==
    [cs EXCEPT ![c].hst = "deactivated",
               ![c].herr = IF @ # "ok" THEN @
                           ELSE IF cs[c].hst = "deactivated" THEN "deactivated twice"
                           ELSE IF cs[c].hst = "refused" THEN "deactivated after a refusal"
                           ELSE IF cs[c].hst = "none" THEN "deactivated before discovered"
                           ELSE IF cs[c].hrole # role THEN "deactivated with another role"
                           ELSE @]


InitPool(cfgs, calls) ==
    /\ state = unknownState
    /\ \E cfg \in cfgs :
         /\ addrs = [a \in Addrs |-> IF a \in cfg THEN Nil ELSE NoKey]
         /\ ctor = [pc |-> "fill", todo |-> cfg, alive |-> FALSE, err |-> NoErr,
                    ctx |-> "live"]
    /\ ep = [e \in EndpointIds |-> FreeEndpoint]
    /\ conn = [c \in ConnIds |-> FreeConn]
    /\ pools = EmptyPools
    /\ poolsMutex = Nil
    /\ addrsMutex = "free"
    /\ \E S \in calls :
         th = [t \in Threads |-> IF t \in S THEN IdleThread
                                 ELSE [IdleThread EXCEPT !.pc = "none"]]
    /\ probe = IdleProbe
    /\ route = IdleRoute

Init == InitPool(InitAddrSets, CallSets)

\* ======================================================= ConnectWithOpts
\* deactivateConnections: every endpoint of the map that holds a conn is
\* deleted from the subpools and its conn closed (and Deactivated called).
deactivateConnections(m) ==
    LET held == {a \in Addrs : m[a] > Nil /\ ep[m[a]].conn # Nil}
        del[S \in SUBSET Addrs] ==
            IF S = {} THEN pools
            ELSE LET a == CHOOSE x \in S : TRUE IN deleteConnection(del[S \ {a}], a)
    IN /\ pools' = del[held]
       /\ conn' = [c \in ConnIds |->
                     IF \E a \in held : ep[m[a]].conn = c
                     THEN LET a == CHOOSE x \in held : ep[m[x]].conn = c
                          IN handlerDeactivated(CloseConn(conn, c), c, ep[m[a]].role)[c]
                     ELSE conn[c]]

\* The caller of ConnectWithOpts cancels ctx while fillPools runs
\* (ctor.ctx is "unused" once ConnectWithOpts has returned).
CtxCancel ==
    /\ ctor.pc = "fill" /\ ctor.ctx = "live"
    /\ ctor' = [ctor EXCEPT !.ctx = "canceled"]
    /\ UNCHANGED <<state, addrs, ep, conn, pools, poolsMutex, addrsMutex, th, probe, route>>

\* One iteration of the loop of fillPools: a new endpoint for the address, a
\* dial, and processConnection on the connection dialled.  A dial fails
\* when ctx is cancelled; it may fail with ctx live.
FillDialFailed(a) ==
    /\ ctor.pc = "fill" /\ a \in ctor.todo /\ FreeEndpoints # {}
    /\ ctor.ctx = "live"
    /\ ep' = [ep EXCEPT ![FreshEndpoint] = newEndpoint(a)]
    /\ addrs' = [addrs EXCEPT ![a] = FreshEndpoint]
    /\ ctor' = [ctor EXCEPT !.todo = @ \ {a}]
    /\ UNCHANGED <<state, conn, pools, poolsMutex, addrsMutex, th, probe, route>>

FillCanceled(a) ==
    /\ ctor.pc = "fill" /\ a \in ctor.todo /\ FreeEndpoints # {}
    /\ ctor.ctx = "canceled"
    /\ ep' = [ep EXCEPT ![FreshEndpoint] = newEndpoint(a)]
    /\ addrs' = [addrs EXCEPT ![a] = Nil]
    /\ deactivateConnections(addrs)
    /\ state' = closedState
    /\ ctor' = [ctor EXCEPT !.pc = "failed", !.alive = FALSE, !.err = ErrContextCanceled,
                            !.ctx = "unused"]
    /\ UNCHANGED <<poolsMutex, addrsMutex, th, probe, route>>

\* processConnection on a dialled connection: the probe, Discovered, and
\* addConnection; the endpoint gets the conn only when all three succeed.
\* No watch of addConnection fails: the registry is empty until
\* ConnectWithOpts has returned the pool.
FillProcess(a) ==
    /\ ctor.pc = "fill" /\ a \in ctor.todo /\ FreeEndpoints # {} /\ FreeConns # {}
    /\ ctor.ctx = "live"
    /\ \E reply \in PoolReplies, discovered \in BOOLEAN :
         LET e == FreshEndpoint
             c == FreshConn
             r == getConnectionRole(reply)
             ok == r.err = NoErr /\ discovered
         IN /\ (r.err # NoErr => discovered)
            /\ addrs' = [addrs EXCEPT ![a] = e]
            /\ ep' = [ep EXCEPT ![e] =
                        IF ok THEN [newEndpoint(a) EXCEPT !.conn = c, !.role = r.role]
                        ELSE newEndpoint(a)]
            /\ conn' = IF r.err # NoErr THEN conn
                        ELSE LET cs == handlerDiscovered([conn EXCEPT ![c] = Dialled(a, e)],
                                                         c, r.role, discovered)
                             IN IF ok THEN cs ELSE CloseConn(cs, c)
            /\ pools' = IF ok THEN addConnection(pools, a, c, r.role, 0).pools ELSE pools
            /\ ctor' = [ctor EXCEPT !.todo = @ \ {a}, !.alive = @ \/ ok]
    /\ UNCHANGED <<state, poolsMutex, addrsMutex, th, probe, route>>

\* ConnectWithOpts that starts controllers for the connected endpoints only.
ConnectFinish_OnlyAlive ==
    /\ ctor.pc = "fill" /\ ctor.todo = {}
    /\ IF ctor.alive
       THEN /\ state' = connectedState
            /\ ctor' = [ctor EXCEPT !.pc = "done", !.ctx = "unused"]
            /\ ep' = [e \in EndpointIds |->
                        IF e \in InMap /\ ep[e].conn # Nil
                        THEN [ep[e] EXCEPT !.pc = "top", !.owner = "ctl"] ELSE ep[e]]
       ELSE /\ state' = closedState
            /\ ctor' = [ctor EXCEPT !.pc = "failed", !.err = ErrNoConnection,
                                    !.ctx = "unused"]
            /\ ep' = ep
    /\ UNCHANGED <<addrs, conn, pools, poolsMutex, addrsMutex, th, probe, route>>

\* The end of ConnectWithOpts: the state is set, and on success a
\* controller is started for every endpoint of the map.
ConnectFinish ==
    /\ ctor.pc = "fill" /\ ctor.todo = {}
    /\ IF ctor.alive
       THEN /\ state' = connectedState
            /\ ctor' = [ctor EXCEPT !.pc = "done", !.ctx = "unused"]
            /\ ep' = [e \in EndpointIds |->
                        IF e \in InMap
                        THEN [ep[e] EXCEPT !.pc = "top", !.owner = "ctl"] ELSE ep[e]]
       ELSE /\ state' = closedState
            /\ ctor' = [ctor EXCEPT !.pc = "failed", !.err = ErrNoConnection,
                                    !.ctx = "unused"]
            /\ ep' = ep
    /\ UNCHANGED <<addrs, conn, pools, poolsMutex, addrsMutex, th, probe, route>>

Constructed == ctor.pc = "done"

\* ============================================================ tryConnect
\* The inputs of a dial by the task of endpoint e: the controller dials
\* under the endpoint's context, which e.cancel() (called with every close
\* of e.shutdown and e.close) cancels; Add dials under its caller's context.
DialMayConnect(e) ==
    /\ FreeConns # {}
    /\ ep[e].owner = "ctl" => ~(ep[e].shutdown \/ ep[e].close)

\* The endpoint record when tryConnect returns err to its caller: the
\* controller goes back to the top of its loop, Add looks at the error.
Returned(r, err) ==
    IF r.owner = "ctl"
    THEN [r EXCEPT !.pc = "top", !.lconn = Nil, !.lrole = UnknownRole]
    ELSE [r EXCEPT !.pc = "tc_ret", !.lerr = err, !.lconn = Nil, !.lrole = UnknownRole]

\* The endpoint record without its connection.
Disconnected(r) == [r EXCEPT !.conn = Nil, !.role = UnknownRole, !.lrole = UnknownRole]

\* tryConnect up to the second Lock: under poolsMutex the state is tested,
\* the endpoint reset, the address dialled and the role probed; with the
\* mutex released a probe error closes the connection, and so does a
\* refusal of handlerDiscovered.
tryConnectBegin(e, r) ==
    /\ poolsMutex = Nil
    /\ IF state # connectedState
       THEN /\ ep' = [ep EXCEPT ![e] = Returned(r, ErrClosed)]
            /\ conn' = conn
       ELSE \/ /\ ep' = [ep EXCEPT ![e] = Returned(Disconnected(r), ErrTransport)]
               /\ conn' = conn
            \/ /\ DialMayConnect(e)
               /\ \E reply \in PoolReplies, discovered \in BOOLEAN :
                    LET c == FreshConn
                        res == getConnectionRole(reply)
                    IN /\ res.err # NoErr => discovered
                       /\ IF res.err # NoErr
                          THEN /\ conn' = conn
                               /\ ep' = [ep EXCEPT ![e] =
                                           Returned(Disconnected(r), res.err)]
                          ELSE /\ conn' =
                                      LET cs == handlerDiscovered(
                                                  [conn EXCEPT ![c] = Dialled(r.addr, e)],
                                                  c, res.role, discovered)
                                      IN IF discovered THEN cs ELSE CloseConn(cs, c)
                               /\ ep' = [ep EXCEPT ![e] =
                                      IF discovered
                                      THEN [Disconnected(r) EXCEPT
                                              !.pc = "tc_lock", !.lconn = c,
                                              !.lrole = res.role]
                                      ELSE Returned(Disconnected(r), ErrCanceled)]

\* tryConnect called by Add on the endpoint it has put into the map, and by
\* reconnect.
TryConnectStart(e) ==
    /\ ep[e].pc = "tc_start"
    /\ tryConnectBegin(e, ep[e])
    /\ UNCHANGED <<state, addrs, pools, poolsMutex, addrsMutex, ctor, th, probe, route>>

\* tryConnect without the second test of the state.
TryConnectLock_NoStateTest(e) ==
    /\ ep[e].pc = "tc_lock"
    /\ poolsMutex = Nil
    /\ ep' = [ep EXCEPT ![e].pc = "tc_add"]
    /\ conn' = conn
    /\ poolsMutex' = e
    /\ UNCHANGED <<state, addrs, pools, addrsMutex, ctor, th, probe, route>>

\* tryConnect, second critical section: poolsMutex is taken and the state
\* tested again; if the pool left connectedState the mutex is released,
\* the connection closed and handlerDeactivated called.
TryConnectLock(e) ==
    /\ ep[e].pc = "tc_lock"
    /\ poolsMutex = Nil
    /\ IF state # connectedState
       THEN /\ ep' = [ep EXCEPT ![e] = Returned(ep[e], ErrClosed)]
            /\ conn' = handlerDeactivated(CloseConn(conn, ep[e].lconn),
                                          ep[e].lconn, ep[e].lrole)
            /\ poolsMutex' = Nil
       ELSE /\ ep' = [ep EXCEPT ![e].pc = "tc_add"]
            /\ conn' = conn
            /\ poolsMutex' = e
    /\ UNCHANGED <<state, addrs, pools, addrsMutex, ctor, th, probe, route>>

\* ... then the connection is added to the subpools and stored in the
\* endpoint, still under poolsMutex.
TryConnectAdd(e) ==
    /\ ep[e].pc = "tc_add"
    /\ poolsMutex = e
    /\ \E fail \in WatchFailures(pools, ep[e].lrole) :
         LET added == addConnection(pools, ep[e].addr, ep[e].lconn, ep[e].lrole, fail) IN
         /\ pools' = added.pools
         /\ IF added.err # NoErr
            THEN /\ ep' = [ep EXCEPT ![e] = Returned(ep[e], added.err)]
                 /\ conn' = handlerDeactivated(CloseConn(conn, ep[e].lconn),
                                               ep[e].lconn, ep[e].lrole)
            ELSE /\ ep' = [ep EXCEPT ![e] =
                             Returned([ep[e] EXCEPT !.conn = ep[e].lconn,
                                                    !.role = ep[e].lrole], NoErr)]
                 /\ conn' = conn
    /\ poolsMutex' = Nil
    /\ UNCHANGED <<state, addrs, addrsMutex, ctor, th, probe, route>>

\* ======================================================= updateConnection
\* updateConnection with handlerDiscovered called before handlerDeactivated.
roleSwitched_DiscoveredFirst(cs, c, old, new, opened) ==
    handlerDeactivated(handlerDiscovered(cs, c, new, opened), c, old)

\* updateConnection on a changed role: handlerDeactivated(e.conn, e.role),
\* then handlerDiscovered(e.conn, role).
roleSwitched(cs, c, old, new, opened) ==
    handlerDiscovered(handlerDeactivated(cs, c, old), c, new, opened)

\* updateConnection that deletes and adds the connection again when the
\* role is the same.
updateConnectionProbed_Readds(e, reply, discovered) ==
    LET res == getConnectionRole(reply) IN
    /\ (res.err # NoErr \/ res.role = ep[e].role) => discovered
    /\ IF res.err # NoErr
       THEN /\ pools' = deleteConnection(pools, ep[e].addr)
            /\ conn' = handlerDeactivated(CloseConn(conn, ep[e].conn),
                                          ep[e].conn, ep[e].role)
            /\ ep' = [ep EXCEPT ![e] = [Disconnected(ep[e]) EXCEPT !.pc = "top"]]
       ELSE IF res.role = ep[e].role
       THEN /\ ep' = [ep EXCEPT ![e].pc = "top"]
            /\ pools' = addConnection(deleteConnection(pools, ep[e].addr), ep[e].addr,
                                      ep[e].conn, ep[e].role, 0).pools
            /\ conn' = conn
       ELSE /\ pools' = deleteConnection(pools, ep[e].addr)
            /\ IF discovered
               THEN /\ ep' = [ep EXCEPT ![e].pc = "uc_lock",
                                        ![e].lrole = res.role]
                    /\ conn' = roleSwitched(conn, ep[e].conn, ep[e].role,
                                            res.role, TRUE)
               ELSE /\ ep' = [ep EXCEPT ![e] =
                                [Disconnected(ep[e]) EXCEPT !.pc = "top"]]
                    /\ conn' = CloseConn(roleSwitched(conn, ep[e].conn, ep[e].role,
                                                      res.role, FALSE),
                                         ep[e].conn)

\* updateConnection once the state has been found connected, with the
\* reply of the probe of e.conn and the answer of the handler (see below).
updateConnectionProbed(e, reply, discovered) ==
    LET res == getConnectionRole(reply) IN
    /\ (res.err # NoErr \/ res.role = ep[e].role) => discovered
    /\ IF res.err # NoErr
       THEN /\ pools' = deleteConnection(pools, ep[e].addr)
            /\ conn' = handlerDeactivated(CloseConn(conn, ep[e].conn),
                                          ep[e].conn, ep[e].role)
            /\ ep' = [ep EXCEPT ![e] = [Disconnected(ep[e]) EXCEPT !.pc = "top"]]
       ELSE IF res.role = ep[e].role
       THEN /\ ep' = [ep EXCEPT ![e].pc = "top"]
            /\ UNCHANGED <<pools, conn>>
       ELSE /\ pools' = deleteConnection(pools, ep[e].addr)
            /\ IF discovered
               THEN /\ ep' = [ep EXCEPT ![e].pc = "uc_lock",
                                        ![e].lrole = res.role]
                    /\ conn' = roleSwitched(conn, ep[e].conn, ep[e].role,
                                            res.role, TRUE)
               ELSE /\ ep' = [ep EXCEPT ![e] =
                                [Disconnected(ep[e]) EXCEPT !.pc = "top"]]
                    /\ conn' = CloseConn(roleSwitched(conn, ep[e].conn, ep[e].role,
                                                      res.role, FALSE),
                                         ep[e].conn)

\* updateConnection up to the second Lock: under poolsMutex the state is
\* tested and e.conn probed.  An unchanged role changes nothing.  A probe
\* error deletes the connection from the subpools, closes it, calls
\* handlerDeactivated and disconnects the endpoint.  A changed role deletes
\* the connection from the subpools and, with the mutex released, calls
\* handlerDeactivated(old role) and handlerDiscovered(new role); a refusal
\* closes the connection and disconnects the endpoint.
updateConnectionBegin(e) ==
    /\ poolsMutex = Nil
    /\ IF state # connectedState
       THEN /\ ep' = [ep EXCEPT ![e].pc = "top"]
            /\ UNCHANGED <<pools, conn>>
       ELSE \E reply \in PoolReplies, discovered \in BOOLEAN :
              updateConnectionProbed(e, reply, discovered)

\* updateConnection, second critical section: the state is tested again; if
\* the pool left connectedState the connection is closed, handlerDeactivated
\* called and the endpoint disconnected ...
UpdateLock(e) ==
    /\ ep[e].pc = "uc_lock"
    /\ poolsMutex = Nil
    /\ IF state # connectedState
       THEN /\ ep' = [ep EXCEPT ![e] = [Disconnected(ep[e]) EXCEPT !.pc = "top"]]
            /\ conn' = handlerDeactivated(CloseConn(conn, ep[e].conn),
                                          ep[e].conn, ep[e].lrole)
            /\ poolsMutex' = Nil
       ELSE /\ ep' = [ep EXCEPT ![e].pc = "uc_add"]
            /\ conn' = conn
            /\ poolsMutex' = e
    /\ UNCHANGED <<state, addrs, pools, addrsMutex, ctor, th, probe, route>>

\* ... else the connection is added under its new role.
UpdateAdd(e) ==
    /\ ep[e].pc = "uc_add"
    /\ poolsMutex = e
    /\ \E fail \in WatchFailures(pools, ep[e].lrole) :
         LET added == addConnection(pools, ep[e].addr, ep[e].conn, ep[e].lrole, fail) IN
         /\ pools' = added.pools
         /\ IF added.err # NoErr
            THEN /\ ep' = [ep EXCEPT ![e] = [Disconnected(ep[e]) EXCEPT !.pc = "top"]]
                 /\ conn' = handlerDeactivated(CloseConn(conn, ep[e].conn),
                                               ep[e].conn, ep[e].lrole)
            ELSE /\ ep' = [ep EXCEPT ![e].pc = "top", ![e].role = ep[e].lrole,
                                     ![e].lrole = UnknownRole]
                 /\ conn' = conn
    /\ poolsMutex' = Nil
    /\ UNCHANGED <<state, addrs, addrsMutex, ctor, th, probe, route>>

\* ============================================================== reconnect
\* reconnect before its tryConnect: state test and deleteConnection under
\* poolsMutex, then handlerDeactivated; the endpoint is disconnected.
reconnectBegin(e) ==
    /\ poolsMutex = Nil
    /\ IF state # connectedState
       THEN /\ ep' = [ep EXCEPT ![e].pc = "top"]
            /\ UNCHANGED <<pools, conn>>
       ELSE /\ pools' = deleteConnection(pools, ep[e].addr)
            /\ conn' = handlerDeactivated(conn, ep[e].conn, ep[e].role)
            /\ ep' = [ep EXCEPT ![e] = [Disconnected(ep[e]) EXCEPT !.pc = "tc_start"]]

\* ============================================================= controller
\* (ControllerTop_NoForceClose is the loop top without the force close of a
\* connection that is being drained.)
\* Top of the loop.  With a graceful shutdown in progress the controller
\* waits for e.closed or e.close.  Then the three non-blocking selects, read
\* in one step: the controller returns if e.closed is closed; else
\* case <-e.close; else case <-e.shutdown; else it goes to the blocking
\* select.
\* case <-e.close: an endpoint with no connection closes e.closed.  A
\* connection is deleted from the subpools under poolsMutex; then, with no
\* graceful shutdown in progress, e.closeErr = e.conn.Close(),
\* handlerDeactivated and close(e.closed); else the connection is force
\* closed and the controller waits for e.closed.
\* case <-e.shutdown: the connection is deleted from the subpools and closed
\* gracefully by a goroutine of its own; an endpoint with no connection
\* closes e.closed at once.
ControllerTop_NoForceClose(e) ==
    /\ ep[e].pc = "top"
    /\ ep[e].lshut => (ep[e].closed \/ ep[e].close)
    /\ IF ep[e].closed
       THEN /\ ep' = [ep EXCEPT ![e].pc = "done"]
            /\ UNCHANGED <<pools, conn>>
       ELSE IF ep[e].close
       THEN IF ep[e].conn = Nil
            THEN /\ ep' = [ep EXCEPT ![e].closed = TRUE, ![e].panic = @ \/ ep[e].closed]
                 /\ UNCHANGED <<pools, conn>>
            ELSE /\ poolsMutex = Nil
                 /\ pools' = deleteConnection(pools, ep[e].addr)
                 /\ IF ep[e].lshut
                    THEN /\ ep' = [ep EXCEPT ![e].pc = "cl_wait"]
                         /\ conn' = conn
                    ELSE /\ conn' = handlerDeactivated(CloseConn(conn, ep[e].conn),
                                                       ep[e].conn, ep[e].role)
                         /\ \E failed \in BOOLEAN :
                              ep' = [ep EXCEPT ![e].closeErr = failed, ![e].closed = TRUE,
                                           ![e].panic = @ \/ ep[e].closed]
       ELSE IF ep[e].shutdown
       THEN IF ep[e].conn = Nil
            THEN /\ ep' = [ep EXCEPT ![e].lshut = TRUE, ![e].closed = TRUE,
                                     ![e].panic = @ \/ ep[e].closed]
                 /\ UNCHANGED <<pools, conn>>
            ELSE /\ poolsMutex = Nil
                 /\ pools' = deleteConnection(pools, ep[e].addr)
                 /\ conn' = conn
                 /\ ep' = [ep EXCEPT ![e].lshut = TRUE, ![e].child = "run"]
       ELSE /\ ep' = [ep EXCEPT ![e].pc = "select"]
            /\ UNCHANGED <<pools, conn>>
    /\ UNCHANGED <<state, addrs, poolsMutex, addrsMutex, ctor, th, probe, route>>

\* A controller that looks at e.shutdown before e.close.
ControllerTop_ShutdownFirst(e) ==
    /\ ep[e].pc = "top"
    /\ ep[e].lshut => (ep[e].closed \/ ep[e].close)
    /\ IF ep[e].closed
       THEN /\ ep' = [ep EXCEPT ![e].pc = "done"]
            /\ UNCHANGED <<pools, conn>>
       ELSE IF ep[e].close /\ (ep[e].lshut \/ ~ep[e].shutdown)
       THEN IF ep[e].conn = Nil
            THEN /\ ep' = [ep EXCEPT ![e].closed = TRUE, ![e].panic = @ \/ ep[e].closed]
                 /\ UNCHANGED <<pools, conn>>
            ELSE /\ poolsMutex = Nil
                 /\ pools' = deleteConnection(pools, ep[e].addr)
                 /\ IF ep[e].lshut
                    THEN /\ conn' = CloseConn(conn, ep[e].conn)
                         /\ ep' = [ep EXCEPT ![e].pc = "cl_wait"]
                    ELSE /\ conn' = handlerDeactivated(CloseConn(conn, ep[e].conn),
                                                       ep[e].conn, ep[e].role)
                         /\ \E failed \in BOOLEAN :
                              ep' = [ep EXCEPT ![e].closeErr = failed, ![e].closed = TRUE,
                                           ![e].panic = @ \/ ep[e].closed]
       ELSE IF ep[e].shutdown
       THEN IF ep[e].conn = Nil
            THEN /\ ep' = [ep EXCEPT ![e].lshut = TRUE, ![e].closed = TRUE,
                                     ![e].panic = @ \/ ep[e].closed]
                 /\ UNCHANGED <<pools, conn>>
            ELSE /\ poolsMutex = Nil
                 /\ pools' = deleteConnection(pools, ep[e].addr)
                 /\ conn' = conn
                 /\ ep' = [ep EXCEPT ![e].lshut = TRUE, ![e].child = "run"]
       ELSE /\ ep' = [ep EXCEPT ![e].pc = "select"]
            /\ UNCHANGED <<pools, conn>>
    /\ UNCHANGED <<state, addrs, poolsMutex, addrsMutex, ctor, th, probe, route>>

\* A controller that does not wait at the top of its loop after it has seen
\* e.shutdown.
ControllerTop_NoShutdownWait(e) ==
    /\ ep[e].pc = "top"
    /\ IF ep[e].closed
       THEN /\ ep' = [ep EXCEPT ![e].pc = "done"]
            /\ UNCHANGED <<pools, conn>>
       ELSE IF ep[e].close
       THEN IF ep[e].conn = Nil
            THEN /\ ep' = [ep EXCEPT ![e].closed = TRUE, ![e].panic = @ \/ ep[e].closed]
                 /\ UNCHANGED <<pools, conn>>
            ELSE /\ poolsMutex = Nil
                 /\ pools' = deleteConnection(pools, ep[e].addr)
                 /\ IF ep[e].lshut
                    THEN /\ conn' = CloseConn(conn, ep[e].conn)
                         /\ ep' = [ep EXCEPT ![e].pc = "cl_wait"]
                    ELSE /\ conn' = handlerDeactivated(CloseConn(conn, ep[e].conn),
                                                       ep[e].conn, ep[e].role)
                         /\ \E failed \in BOOLEAN :
                              ep' = [ep EXCEPT ![e].closeErr = failed, ![e].closed = TRUE,
                                           ![e].panic = @ \/ ep[e].closed]
       ELSE IF ep[e].shutdown /\ ~ep[e].lshut
       THEN IF ep[e].conn = Nil
            THEN /\ ep' = [ep EXCEPT ![e].lshut = TRUE, ![e].closed = TRUE,
                                     ![e].panic = @ \/ ep[e].closed]
                 /\ UNCHANGED <<pools, conn>>
            ELSE /\ poolsMutex = Nil
                 /\ pools' = deleteConnection(pools, ep[e].addr)
                 /\ conn' = conn
                 /\ ep' = [ep EXCEPT ![e].lshut = TRUE, ![e].child = "run"]
       ELSE /\ ep' = [ep EXCEPT ![e].pc = "select"]
            /\ UNCHANGED <<pools, conn>>
    /\ UNCHANGED <<state, addrs, poolsMutex, addrsMutex, ctor, th, probe, route>>

\* The top of the loop (described above).
ControllerTop(e) ==
    /\ ep[e].pc = "top"
    /\ ep[e].lshut => (ep[e].closed \/ ep[e].close)
    /\ IF ep[e].closed
       THEN /\ ep' = [ep EXCEPT ![e].pc = "done"]
            /\ UNCHANGED <<pools, conn>>
       ELSE IF ep[e].close
       THEN IF ep[e].conn = Nil
            THEN /\ ep' = [ep EXCEPT ![e].closed = TRUE, ![e].panic = @ \/ ep[e].closed]
                 /\ UNCHANGED <<pools, conn>>
            ELSE /\ poolsMutex = Nil
                 /\ pools' = deleteConnection(pools, ep[e].addr)
                 /\ IF ep[e].lshut
                    THEN /\ conn' = CloseConn(conn, ep[e].conn)
                         /\ ep' = [ep EXCEPT ![e].pc = "cl_wait"]
                    ELSE /\ conn' = handlerDeactivated(CloseConn(conn, ep[e].conn),
                                                       ep[e].conn, ep[e].role)
                         /\ \E failed \in BOOLEAN :
                              ep' = [ep EXCEPT ![e].closeErr = failed, ![e].closed = TRUE,
                                           ![e].panic = @ \/ ep[e].closed]
       ELSE IF ep[e].shutdown
       THEN IF ep[e].conn = Nil
            THEN /\ ep' = [ep EXCEPT ![e].lshut = TRUE, ![e].closed = TRUE,
                                     ![e].panic = @ \/ ep[e].closed]
                 /\ UNCHANGED <<pools, conn>>
            ELSE /\ poolsMutex = Nil
                 /\ pools' = deleteConnection(pools, ep[e].addr)
                 /\ conn' = conn
                 /\ ep' = [ep EXCEPT ![e].lshut = TRUE, ![e].child = "run"]
       ELSE /\ ep' = [ep EXCEPT ![e].pc = "select"]
            /\ UNCHANGED <<pools, conn>>
    /\ UNCHANGED <<state, addrs, poolsMutex, addrsMutex, ctor, th, probe, route>>

\* <-e.closed after the force close.
ControllerWaitClosed(e) ==
    /\ ep[e].pc = "cl_wait"
    /\ ep[e].closed
    /\ ep' = [ep EXCEPT ![e].pc = "top"]
    /\ UNCHANGED <<state, addrs, conn, pools, poolsMutex, addrsMutex, ctor, th, probe, route>>

\* The goroutine of the graceful shutdown: e.closeErr =
\* e.conn.CloseGraceful(), which returns when the requests in flight are
\* done or the connection is closed; then close(e.closed).
GracefulCloseDone(e) ==
    /\ ep[e].child = "run"
    /\ \E failed \in BOOLEAN :
         ep' = [ep EXCEPT ![e].child = "done", ![e].closeErr = failed, ![e].closed = TRUE,
                          ![e].panic = @ \/ ep[e].closed]
    /\ conn' = CloseConn(conn, ep[e].conn)
    /\ UNCHANGED <<state, addrs, pools, poolsMutex, addrsMutex, ctor, th, probe, route>>

\* The blocking select: e.close or e.shutdown is handled by the next
\* iteration.
ControllerSelectSignal(e) ==
    /\ ep[e].pc = "select"
    /\ ep[e].close \/ ep[e].shutdown
    /\ ep' = [ep EXCEPT ![e].pc = "top"]
    /\ UNCHANGED <<state, addrs, conn, pools, poolsMutex, addrsMutex, ctor, th, probe, route>>

\* case <-e.notify that calls handlerDeactivated and keeps e.conn.
ControllerNotify_KeepsConn(e) ==
    /\ ep[e].pc = "select"
    /\ ep[e].notify
    /\ IF ep[e].conn # Nil /\ conn[ep[e].conn].closed
       THEN /\ poolsMutex = Nil
            /\ IF state = connectedState
               THEN /\ pools' = deleteConnection(pools, ep[e].addr)
                    /\ conn' = handlerDeactivated(conn, ep[e].conn, ep[e].role)
                    /\ ep' = [ep EXCEPT ![e].pc = "top", ![e].notify = FALSE]
               ELSE /\ UNCHANGED <<pools, conn>>
                    /\ ep' = [ep EXCEPT ![e].pc = "top", ![e].notify = FALSE]
       ELSE /\ UNCHANGED <<pools, conn>>
            /\ ep' = [ep EXCEPT ![e].pc = "top", ![e].notify = FALSE]
    /\ UNCHANGED <<state, addrs, poolsMutex, addrsMutex, ctor, th, probe, route>>

\* case <-e.notify: a closed connection is deleted from the subpools, if the
\* pool is in connectedState, then handlerDeactivated is called and the
\* endpoint disconnected.
ControllerNotify(e) ==
    /\ ep[e].pc = "select"
    /\ ep[e].notify
    /\ IF ep[e].conn # Nil /\ conn[ep[e].conn].closed
       THEN /\ poolsMutex = Nil
            /\ IF state = connectedState
               THEN /\ pools' = deleteConnection(pools, ep[e].addr)
                    /\ conn' = handlerDeactivated(conn, ep[e].conn, ep[e].role)
                    /\ ep' = [ep EXCEPT ![e] =
                                [Disconnected(ep[e]) EXCEPT !.pc = "top", !.notify = FALSE]]
               ELSE /\ UNCHANGED <<pools, conn>>
                    /\ ep' = [ep EXCEPT ![e].pc = "top", ![e].notify = FALSE]
       ELSE /\ UNCHANGED <<pools, conn>>
            /\ ep' = [ep EXCEPT ![e].pc = "top", ![e].notify = FALSE]
    /\ UNCHANGED <<state, addrs, poolsMutex, addrsMutex, ctor, th, probe, route>>

\* case <-timer.C with no connection: tryConnect.
ControllerTimerConnect(e) ==
    /\ ep[e].pc = "select"
    /\ ep[e].conn = Nil
    /\ tryConnectBegin(e, [ep[e] EXCEPT !.pc = "top"])
    /\ UNCHANGED <<state, addrs, pools, poolsMutex, addrsMutex, ctor, th, probe, route>>

\* updateConnection that keeps poolsMutex over the callbacks of a role
\* switch.
ControllerTimerUpdate_CallbacksUnderLock(e) ==
    /\ ep[e].pc = "select"
    /\ ep[e].conn # Nil /\ ~conn[ep[e].conn].closed
    /\ updateConnectionBegin(e)
    /\ poolsMutex' = IF ep'[e].pc = "uc_lock" THEN e ELSE Nil
    /\ UNCHANGED <<state, addrs, addrsMutex, ctor, th, probe, route>>

\* case <-timer.C with an open connection: updateConnection.
ControllerTimerUpdate(e) ==
    /\ ep[e].pc = "select"
    /\ ep[e].conn # Nil /\ ~conn[ep[e].conn].closed
    /\ updateConnectionBegin(e)
    /\ UNCHANGED <<state, addrs, poolsMutex, addrsMutex, ctor, th, probe, route>>

\* case <-timer.C with a closed connection: reconnect.
ControllerTimerReconnect(e) ==
    /\ ep[e].pc = "select"
    /\ ep[e].conn # Nil /\ conn[ep[e].conn].closed
    /\ reconnectBegin(e)
    /\ UNCHANGED <<state, addrs, poolsMutex, addrsMutex, ctor, th, probe, route>>

\* ============================================================ environment
\* A connection is lost: it becomes closed and publishes the event on the
\* notify channel of the endpoint that dialled it.
ConnLost(c) ==
    /\ conn[c].used /\ ~conn[c].closed
    /\ conn' = CloseConn(conn, c)
    /\ ep' = [ep EXCEPT ![conn[c].ep].notify = TRUE]
    /\ UNCHANGED <<state, addrs, pools, poolsMutex, addrsMutex, ctor, th, probe, route>>

\* =============================================================== watchers
\* NewWatcher that returns the watcher before its loop has run.
NewWatcherAdd_ReturnsFirst(w, mode) ==
    /\ Constructed
    /\ pools.watchers[w].pc = "none"
    /\ \A v \in WatcherIds : v < w => pools.watchers[v].pc # "none"
    /\ LET rr == CASE mode = RW -> pools.rw
                   [] mode = RO -> pools.ro
                   [] OTHER -> pools.any
       IN pools' = [pools EXCEPT
                      !.registry = Append(@, w),
                      !.watchers[w] = [NoWatcher EXCEPT !.pc = "live", !.mode = mode,
                                                        !.todo = GetConnections(rr)]]
    /\ UNCHANGED <<state, addrs, ep, conn, poolsMutex, addrsMutex, ctor, th, probe, route>>

\* NewWatcher on a pool whose connOpts require WatchersFeature: the watcher
\* is added to the container, and the connections of the subpool of its mode
\* are read, with no pool mutex held.  A watch of addConnection between the
\* two gives what it gives right after both.
NewWatcherAdd(w, mode) ==
    /\ Constructed
    /\ pools.watchers[w].pc = "none"
    /\ \A v \in WatcherIds : v < w => pools.watchers[v].pc # "none"
    /\ LET rr == CASE mode = RW -> pools.rw
                   [] mode = RO -> pools.ro
                   [] OTHER -> pools.any
       IN pools' = [pools EXCEPT
                      !.registry = Append(@, w),
                      !.watchers[w] = [NoWatcher EXCEPT !.pc = "watch", !.mode = mode,
                                                        !.todo = GetConnections(rr)]]
    /\ UNCHANGED <<state, addrs, ep, conn, poolsMutex, addrsMutex, ctor, th, probe, route>>

\* One iteration of the loop of NewWatcher: watcher.watch(conn), and
\* conn.Close() when it fails.  A closed connection takes no subscription.
NewWatcherWatch(w, c) ==
    /\ c \in pools.watchers[w].todo
    /\ \E ok \in BOOLEAN :
         /\ ok => ~conn[c].closed
         /\ pools' = [pools EXCEPT
                        !.watchers = IF ok THEN watch([@ EXCEPT ![w].todo = @ \ {c}], w, c)
                                     ELSE [@ EXCEPT ![w].todo = @ \ {c}]]
         /\ conn' = IF ok THEN conn ELSE CloseConn(conn, c)
    /\ UNCHANGED <<state, addrs, ep, poolsMutex, addrsMutex, ctor, th, probe, route>>

\* NewWatcher returns the watcher.
NewWatcherReturn(w) ==
    /\ pools.watchers[w].pc = "watch"
    /\ pools.watchers[w].todo = {}
    /\ pools' = [pools EXCEPT !.watchers[w].pc = "live"]
    /\ UNCHANGED <<state, addrs, ep, conn, poolsMutex, addrsMutex, ctor, th, probe, route>>

\* Unregister() of a watcher NewWatcher has returned: it unwatches every
\* connection it is attached to and leaves the registry.
Unregister(w) ==
    /\ pools.watchers[w].pc = "live"
    /\ pools' = [pools EXCEPT
                   !.registry = SelectSeq(@, LAMBDA v : v # w),
                   !.watchers[w] = [@ EXCEPT !.pc = "unregistered", !.att = {}]]
    /\ UNCHANGED <<state, addrs, ep, conn, poolsMutex, addrsMutex, ctor, th, probe, route>>

\* An open connection that holds a subscription of the watcher delivers an
\* event: the callback of the watcher is invoked.
Callback(w, c) ==
    /\ c \in pools.watchers[w].att
    /\ ~conn[c].closed
    /\ pools.watchers[w].calls < MaxEvents
    /\ pools' = [pools EXCEPT !.watchers[w].calls = @ + 1]
    /\ UNCHANGED <<state, addrs, ep, conn, poolsMutex, addrsMutex, ctor, th, probe, route>>

\* ================================================================ callers
\* The connections held by the subpools.
Pooled == GetConnections(pools.rw) \cup GetConnections(pools.ro)
              \cup GetConnections(pools.any)

\* The role under which the subpools hold a connection.
PooledRole(c) ==
    IF c \in GetConnections(pools.rw) THEN MasterRole
    ELSE IF c \in GetConnections(pools.ro) THEN ReplicaRole
    ELSE UnknownRole

\* The endpoints whose connection is in the subpools (addConnection has
\* stored it and no deleteConnection has taken it out).
Registered ==
    {e \in EndpointIds : /\ ep[e].used /\ ep[e].conn # Nil
                         /\ GetConnByAddr(pools.any, ep[e].addr) = ep[e].conn}

\* waitClose: the endpoints of the map are collected under addrsMutex ...
waitCloseSnapshot(t) ==
    /\ addrsMutex = "free"
    /\ th' = [th EXCEPT ![t].pc = "wait", ![t].snap = InMap]

\* ... and each one's e.closed is awaited; the errors kept are returned.
waitCloseDone(t) ==
    /\ th[t].pc = "wait"
    /\ \A e \in th[t].snap : ep[e].closed
    /\ th' = [th EXCEPT ![t].pc = "idle", ![t].done = TRUE, ![t].snap = {},
                        ![t].calls = @ + 1,
                        ![t].errs = {e \in th[t].snap : ep[e].closeErr}]

\* Close: cas(connectedState, closedState) || cas(shutdownState, closedState).
\* Close may be called again once it has returned.
CloseCas ==
    /\ Constructed
    /\ th["close"].pc = "idle" /\ th["close"].calls < MaxCloseCalls
    /\ IF state \in {connectedState, shutdownState}
       THEN /\ state' = closedState
            /\ th' = [th EXCEPT !["close"].pc = "signal", !["close"].cas = TRUE]
       ELSE /\ state' = state
            /\ th' = [th EXCEPT !["close"].pc = "snap", !["close"].cas = FALSE]
    /\ UNCHANGED <<addrs, ep, conn, pools, poolsMutex, addrsMutex, ctor, probe, route>>

\* Close: s.cancel() and close(s.close) for every endpoint of the map.
CloseSignal ==
    /\ th["close"].pc = "signal"
    /\ addrsMutex = "free"
    /\ ep' = [e \in EndpointIds |->
                IF e \in InMap THEN [ep[e] EXCEPT !.close = TRUE, !.panic = @ \/ ep[e].close]
                ELSE ep[e]]
    /\ th' = [th EXCEPT !["close"].pc = "snap"]
    /\ UNCHANGED <<state, addrs, conn, pools, poolsMutex, addrsMutex, ctor, probe, route>>

CloseSnapshot ==
    /\ th["close"].pc = "snap"
    /\ waitCloseSnapshot("close")
    /\ UNCHANGED <<state, addrs, ep, conn, pools, poolsMutex, addrsMutex, ctor, probe, route>>

CloseReturn ==
    /\ waitCloseDone("close")
    /\ UNCHANGED <<state, addrs, ep, conn, pools, poolsMutex, addrsMutex, ctor, probe, route>>

\* CloseGraceful with state.set(shutdownState) in place of the cas.
CloseGracefulCas_Set ==
    /\ Constructed
    /\ th["graceful"].pc = "idle" /\ ~th["graceful"].done
    /\ state' = shutdownState
    /\ th' = [th EXCEPT !["graceful"].pc = "signal", !["graceful"].cas = TRUE,
                        !["graceful"].reg = Registered]
    /\ UNCHANGED <<addrs, ep, conn, pools, poolsMutex, addrsMutex, ctor, probe, route>>

\* CloseGraceful: cas(connectedState, shutdownState).
CloseGracefulCas ==
    /\ Constructed
    /\ th["graceful"].pc = "idle" /\ ~th["graceful"].done
    /\ IF state = connectedState
       THEN /\ state' = shutdownState
            /\ th' = [th EXCEPT !["graceful"].pc = "signal", !["graceful"].cas = TRUE,
                                !["graceful"].reg = Registered]
       ELSE /\ state' = state
            /\ th' = [th EXCEPT !["graceful"].pc = "snap", !["graceful"].reg = Registered]
    /\ UNCHANGED <<addrs, ep, conn, pools, poolsMutex, addrsMutex, ctor, probe, route>>

\* CloseGraceful: s.cancel() and close(s.shutdown) for every endpoint of
\* the map.
CloseGracefulSignal ==
    /\ th["graceful"].pc = "signal"
    /\ addrsMutex = "free"
    /\ ep' = [e \in EndpointIds |->
                IF e \in InMap THEN [ep[e] EXCEPT !.shutdown = TRUE, !.panic = @ \/ ep[e].shutdown]
                ELSE ep[e]]
    /\ th' = [th EXCEPT !["graceful"].pc = "snap"]
    /\ UNCHANGED <<state, addrs, conn, pools, poolsMutex, addrsMutex, ctor, probe, route>>

CloseGracefulSnapshot ==
    /\ th["graceful"].pc = "snap"
    /\ waitCloseSnapshot("graceful")
    /\ UNCHANGED <<state, addrs, ep, conn, pools, poolsMutex, addrsMutex, ctor, probe, route>>

CloseGracefulReturn ==
    /\ waitCloseDone("graceful")
    /\ UNCHANGED <<state, addrs, ep, conn, pools, poolsMutex, addrsMutex, ctor, probe, route>>

\* GetAddrs: the addresses of the address map.
GetAddrs == {a \in Addrs : addrs[a] # NoKey}

\* GetPoolInfo, which reads under addrsMutex and poolsMutex: nothing unless
\* the pool is in connectedState, else for every address of the map what
\* getConnectionFromPool finds under that address.
GetPoolInfo ==
    LET found(a) == getConnectionFromPool(a, pools.rw, pools.ro, pools.any)
        known == IF state # connectedState THEN {}
                 ELSE {a \in GetAddrs : found(a).conn # Nil}
    IN [a \in known |-> [ConnectedNow |-> ~conn[found(a).conn].closed,
                         ConnRole |-> found(a).role]]

\* ConnectedNow without the test of the state.
ConnectedNow_NoStateTest(mode) ==
    CASE mode = ANY -> ~IsEmpty(pools.any)
      [] mode = RW -> ~IsEmpty(pools.rw)
      [] mode = RO -> ~IsEmpty(pools.ro)
      [] mode \in {PreferRW, PreferRO} -> ~IsEmpty(pools.rw) \/ ~IsEmpty(pools.ro)
      [] OTHER -> FALSE

\* ConnectedNow(mode), read under poolsMutex: false unless the pool is in
\* connectedState, else whether the subpool of the mode holds a connection
\* (rwPool or roPool for both PreferRW and PreferRO); false for no mode.
ConnectedNow(mode) ==
    IF state # connectedState THEN FALSE
    ELSE CASE mode = ANY -> ~IsEmpty(pools.any)
           [] mode = RW -> ~IsEmpty(pools.rw)
           [] mode = RO -> ~IsEmpty(pools.ro)
           [] mode \in {PreferRW, PreferRO} -> ~IsEmpty(pools.rw) \/ ~IsEmpty(pools.ro)
           [] OTHER -> FALSE

\* The holder of p.poolsMutex.RLock() in GetPoolInfo.
Reader == -2

\* GetPoolInfo, step by step: p.addrsMutex.RLock() ...
GetPoolInfoRLock_PoolsFirst ==
    /\ Constructed
    /\ th["info"].pc = "idle" /\ ~th["info"].done
    /\ poolsMutex = Nil
    /\ poolsMutex' = Reader
    /\ th' = [th EXCEPT !["info"].pc = "pools"]
    /\ UNCHANGED <<state, addrs, ep, conn, pools, addrsMutex, ctor, probe, route>>

GetPoolInfoRLock ==
    /\ Constructed
    /\ th["info"].pc = "idle" /\ ~th["info"].done
    /\ addrsMutex = "free"
    /\ addrsMutex' = "info"
    /\ th' = [th EXCEPT !["info"].pc = "pools"]
    /\ UNCHANGED <<state, addrs, ep, conn, pools, poolsMutex, ctor, probe, route>>

\* ... then p.poolsMutex.RLock() ...
GetPoolInfoRLockPools ==
    /\ th["info"].pc = "pools"
    /\ poolsMutex = Nil
    /\ poolsMutex' = Reader
    /\ th' = [th EXCEPT !["info"].pc = "read"]
    /\ UNCHANGED <<state, addrs, ep, conn, pools, addrsMutex, ctor, probe, route>>

\* ... then the map is built (its addresses are kept in snap) and the
\* deferred RUnlocks run.
GetPoolInfoReturn ==
    /\ th["info"].pc = "read"
    /\ th' = [th EXCEPT !["info"].pc = "idle", !["info"].done = TRUE,
                        !["info"].snap = DOMAIN GetPoolInfo]
    /\ poolsMutex' = Nil
    /\ addrsMutex' = "free"
    /\ UNCHANGED <<state, addrs, ep, conn, pools, ctor, probe, route>>

\* Add: addrsMutex is taken and the state tested ...  Of two callers of
\* Add, "add2" names the one whose call takes addrsMutex second.
AddCheckState(t, a) ==
    /\ Constructed
    /\ th[t].pc = "idle" /\ ~th[t].done
    /\ t = "add2" => (th["add"].pc # "idle" \/ th["add"].done)
    /\ addrsMutex = "free"
    /\ IF state # connectedState
       THEN /\ th' = [th EXCEPT ![t].done = TRUE, ![t].err = ErrClosed,
                                ![t].addr = a, ![t].before = GetAddrs]
            /\ addrsMutex' = "free"
       ELSE /\ th' = [th EXCEPT ![t].pc = "insert", ![t].addr = a,
                                ![t].before = GetAddrs]
            /\ addrsMutex' = t
    /\ UNCHANGED <<state, addrs, ep, conn, pools, poolsMutex, ctor, probe, route>>

\* ... and the endpoint put into the map unless the address is known.
AddInsert(t) ==
    /\ th[t].pc = "insert"
    /\ addrsMutex = t
    /\ IF addrs[th[t].addr] # NoKey
       THEN /\ th' = [th EXCEPT ![t].pc = "idle", ![t].done = TRUE,
                                ![t].err = ErrExists]
            /\ UNCHANGED <<addrs, ep>>
       ELSE /\ FreeEndpoints # {}
            /\ addrs' = [addrs EXCEPT ![th[t].addr] = FreshEndpoint]
            /\ ep' = [ep EXCEPT ![FreshEndpoint] =
                        [newEndpoint(th[t].addr) EXCEPT !.pc = "tc_start",
                                                            !.owner = t]]
            /\ th' = [th EXCEPT ![t].pc = "connect", ![t].e = FreshEndpoint]
    /\ addrsMutex' = "free"
    /\ UNCHANGED <<state, conn, pools, poolsMutex, ctor, probe, route>>

\* Add after tryConnect: on an error the address is deleted from the map,
\* e.cancel() called and e.closed closed; otherwise the controller starts.
AddFinish(t) ==
    /\ th[t].pc = "connect"
    /\ ep[th[t].e].pc = "tc_ret"
    /\ LET e == th[t].e IN
       IF ep[e].lerr # NoErr
       THEN /\ addrsMutex = "free"
            /\ addrs' = [addrs EXCEPT ![th[t].addr] = NoKey]
            /\ ep' = [ep EXCEPT ![e].pc = "none", ![e].closed = TRUE,
                                 ![e].panic = @ \/ ep[e].closed]
            /\ th' = [th EXCEPT ![t].pc = "idle", ![t].done = TRUE,
                                ![t].err = ep[e].lerr]
       ELSE /\ addrs' = addrs
            /\ ep' = [ep EXCEPT ![e].pc = "top", ![e].owner = "ctl"]
            /\ th' = [th EXCEPT ![t].pc = "idle", ![t].done = TRUE,
                                ![t].err = NoErr]
    /\ UNCHANGED <<state, conn, pools, poolsMutex, addrsMutex, ctor, probe, route>>

\* Remove that closes endpoint.shutdown without the select on
\* endpoint.close and endpoint.shutdown.
RemoveStart_NoSelect(a) ==
    /\ Constructed
    /\ th["remove"].pc = "idle" /\ ~th["remove"].done
    /\ addrsMutex = "free"
    /\ IF addrs[a] = NoKey
       THEN /\ th' = [th EXCEPT !["remove"].done = TRUE, !["remove"].err = ErrNotExist,
                                !["remove"].addr = a]
            /\ UNCHANGED <<addrs, ep>>
       ELSE /\ th' = [th EXCEPT !["remove"].pc = "rwait", !["remove"].addr = a,
                                !["remove"].e = addrs[a]]
            /\ ep' = [ep EXCEPT ![addrs[a]].shutdown = TRUE,
                                ![addrs[a]].panic = @ \/ ep[addrs[a]].shutdown]
            /\ addrs' = [addrs EXCEPT ![a] = NoKey]
    /\ UNCHANGED <<state, conn, pools, poolsMutex, addrsMutex, ctor, probe, route>>

\* Remove that leaves the address in the map.
RemoveStart_KeepsAddr(a) ==
    /\ Constructed
    /\ th["remove"].pc = "idle" /\ ~th["remove"].done
    /\ addrsMutex = "free"
    /\ IF addrs[a] = NoKey
       THEN /\ th' = [th EXCEPT !["remove"].done = TRUE, !["remove"].err = ErrNotExist,
                                !["remove"].addr = a]
            /\ UNCHANGED <<addrs, ep>>
       ELSE /\ th' = [th EXCEPT !["remove"].pc = "rwait", !["remove"].addr = a,
                                !["remove"].e = addrs[a]]
            /\ ep' = [ep EXCEPT ![addrs[a]].shutdown = @ \/ ~ep[addrs[a]].close]
            /\ addrs' = addrs
    /\ UNCHANGED <<state, conn, pools, poolsMutex, addrsMutex, ctor, probe, route>>

\* Remove: under addrsMutex the endpoint is looked up, its shutdown
\* signalled unless e.close or e.shutdown is closed already, and the address
\* deleted from the map.
RemoveStart(a) ==
    /\ Constructed
    /\ th["remove"].pc = "idle" /\ ~th["remove"].done
    /\ addrsMutex = "free"
    /\ IF addrs[a] = NoKey
       THEN /\ th' = [th EXCEPT !["remove"].done = TRUE, !["remove"].err = ErrNotExist,
                                !["remove"].addr = a]
            /\ UNCHANGED <<addrs, ep>>
       ELSE /\ th' = [th EXCEPT !["remove"].pc = "rwait", !["remove"].addr = a,
                                !["remove"].e = addrs[a]]
            /\ ep' = [ep EXCEPT ![addrs[a]].shutdown = @ \/ ~ep[addrs[a]].close]
            /\ addrs' = [addrs EXCEPT ![a] = NoKey]
    /\ UNCHANGED <<state, conn, pools, poolsMutex, addrsMutex, ctor, probe, route>>

\* Remove: <-endpoint.closed.
RemoveReturn ==
    /\ th["remove"].pc = "rwait"
    /\ ep[th["remove"].e].closed
    /\ th' = [th EXCEPT !["remove"].pc = "idle", !["remove"].done = TRUE,
                        !["remove"].err = NoErr]
    /\ UNCHANGED <<state, addrs, ep, conn, pools, poolsMutex, addrsMutex, ctor, probe, route>>

\* ============================================================== dispatch
\* Do that leaves the cursor of the subpool where it is.
Do_NoAdvance(mode) ==
    /\ route.pc \in {"ready", "called"}
    /\ LET sel == getNextConnection(mode, pools.rw, pools.ro, pools.any) IN
       /\ route' = [pc |-> "called", mode |-> mode, sel |-> sel, before |-> pools,
                    req |-> Nil,
                    prev |-> [called |-> route.pc = "called", mode |-> route.mode,
                              conn |-> route.sel.conn]]
       /\ pools' = pools
    /\ UNCHANGED <<state, addrs, ep, conn, poolsMutex, addrsMutex, ctor, th, probe>>

\* Do with a free request: getNextConnection(mode); GetNextConnection of
\* the subpool that gave the connection has advanced its cursor.  The
\* subpools before the call are kept with the selection, and so is the
\* outcome of the call before.
Do(mode) ==
    /\ route.pc \in {"ready", "called"}
    /\ LET sel == getNextConnection(mode, pools.rw, pools.ro, pools.any) IN
       /\ route' = [pc |-> "called", mode |-> mode, sel |-> sel, before |-> pools,
                    req |-> Nil,
                    prev |-> [called |-> route.pc = "called", mode |-> route.mode,
                              conn |-> route.sel.conn]]
       /\ pools' = IF sel.pool = "none" THEN pools
                   ELSE [pools EXCEPT ![sel.pool] = Advance(@)]
    /\ UNCHANGED <<state, addrs, ep, conn, poolsMutex, addrsMutex, ctor, th, probe>>

\* Do with a ConnectedRequest bound to the connection c:
\* getConnectionFromPool(c.Addr()), ErrUnknownRequest if it gives nil, else
\* the request is sent on c.  sel.conn is the connection the request was
\* sent on.
DoConnected(c, mode) ==
    /\ Constructed
    /\ conn[c].used
    /\ route' = [IdleRoute EXCEPT
                   !.pc = "bound", !.mode = mode, !.req = c,
                   !.sel = IF getConnectionFromPool(conn[c].addr, pools.rw, pools.ro, pools.any).conn = Nil
                           THEN Sel(Nil, "none", ErrUnknownRequest)
                           ELSE Sel(c, "none", NoErr)]
    /\ UNCHANGED <<state, addrs, ep, conn, pools, poolsMutex, addrsMutex, ctor, th, probe>>

\* The contents of one subpool: entries with distinct addresses, in any
\* order, and a cursor within the size.
SubPools ==
    {EmptyPool}
    \cup {[conns |-> <<[addr |-> a, conn |-> c]>>, current |-> 0] :
            a \in Addrs, c \in ConnIds}
    \cup {rr \in {[conns |-> <<[addr |-> a, conn |-> c], [addr |-> b, conn |-> d]>>,
                    current |-> k] :
                     a \in Addrs, b \in Addrs, c \in ConnIds, d \in ConnIds,
                     k \in {0, 1}} :
            rr.conns[1].addr # rr.conns[2].addr /\ rr.conns[1].conn # rr.conns[2].conn}

\* A connected pool with any contents of the three subpools.
InitRoute ==
    /\ state = connectedState
    /\ addrs = [a \in Addrs |-> NoKey]
    /\ ep = [e \in EndpointIds |-> FreeEndpoint]
    /\ conn = [c \in ConnIds |-> FreeConn]
    /\ pools \in [rw : SubPools, ro : SubPools, any : SubPools]
    /\ poolsMutex = Nil
    /\ addrsMutex = "free"
    /\ ctor = [pc |-> "done", todo |-> {}, alive |-> TRUE, err |-> NoErr,
               ctx |-> "unused"]
    /\ th = [t \in Threads |-> [IdleThread EXCEPT !.pc = "none"]]
    /\ probe = IdleProbe
    /\ route = [IdleRoute EXCEPT !.pc = "ready"]

NextRoute == \E mode \in Modes : Do(mode)

SpecRoute == InitRoute /\ [][NextRoute]_vars

\* ============================================================= role probe
\* getConnectionRole on the reply the instance gave.
Probe ==
    /\ probe.pc = "ready"
    /\ probe' = [probe EXCEPT !.pc = "done", !.res = getConnectionRole(probe.reply)]
    /\ UNCHANGED <<state, addrs, ep, conn, pools, poolsMutex, addrsMutex, ctor, th, route>>

\* The Data elements after the first, which getConnectionRole never reads.
ReplyTail == {[kind |-> "int", status |-> Absent, ro |-> Absent]}

InitProbe ==
    /\ state = connectedState
    /\ addrs = [a \in Addrs |-> NoKey]
    /\ ep = [e \in EndpointIds |-> FreeEndpoint]
    /\ conn = [c \in ConnIds |-> FreeConn]
    /\ pools = EmptyPools
    /\ poolsMutex = Nil
    /\ addrsMutex = "free"
    /\ ctor = [pc |-> "done", todo |-> {}, alive |-> TRUE, err |-> NoErr,
               ctx |-> "unused"]
    /\ th = [t \in Threads |-> [IdleThread EXCEPT !.pc = "none"]]
    /\ \E reply \in Replies(ReplyTail) : probe = [IdleProbe EXCEPT !.pc = "ready", !.reply = reply]
    /\ route = IdleRoute

NextProbe == Probe

SpecProbe == InitProbe /\ [][NextProbe]_vars

\* ========================================================= specification
Construct ==
    \/ CtxCancel
    \/ \E a \in Addrs : FillDialFailed(a) \/ FillCanceled(a) \/ FillProcess(a)
    \/ ConnectFinish

Controller(e) ==
    \/ ControllerTop(e) \/ ControllerWaitClosed(e) \/ GracefulCloseDone(e)
    \/ ControllerSelectSignal(e) \/ ControllerNotify(e)
    \/ ControllerTimerConnect(e) \/ ControllerTimerUpdate(e)
    \/ ControllerTimerReconnect(e)
    \/ TryConnectStart(e) \/ TryConnectLock(e) \/ TryConnectAdd(e)
    \/ UpdateLock(e) \/ UpdateAdd(e)

Callers ==
    \/ CloseCas \/ CloseSignal \/ CloseSnapshot \/ CloseReturn
    \/ CloseGracefulCas \/ CloseGracefulSignal \/ CloseGracefulSnapshot
    \/ CloseGracefulReturn
    \/ \E a \in Addrs : RemoveStart(a)
    \/ RemoveReturn
    \/ \E t \in AddThreads : \/ \E a \in Addrs : AddCheckState(t, a)
                             \/ AddInsert(t) \/ AddFinish(t)

Next ==
    \/ Construct
    \/ \E e \in EndpointIds : Controller(e)
    \/ \E c \in ConnIds : ConnLost(c)
    \/ Callers

Spec == Init /\ [][Next]_vars

\* ------------------------------------------------- concurrent Add calls
\* A pool whose only callers are two Add calls and a Remove, concurrent with
\* each other and with the controllers.
AddCalls == {{"add", "add2", "remove"}}

InitAdd == InitPool(InitAddrSets, AddCalls)

NextAdd ==
    \/ Construct
    \/ \E e \in EndpointIds :
         \/ ControllerTop(e) \/ GracefulCloseDone(e)
         \/ ControllerSelectSignal(e) \/ ControllerNotify(e)
         \/ ControllerTimerConnect(e) \/ ControllerTimerUpdate(e)
         \/ ControllerTimerReconnect(e)
         \/ TryConnectStart(e) \/ TryConnectLock(e) \/ TryConnectAdd(e)
         \/ UpdateLock(e) \/ UpdateAdd(e)
    \/ \E c \in ConnIds : ConnLost(c)
    \/ \E a \in Addrs : RemoveStart(a)
    \/ RemoveReturn
    \/ \E t \in AddThreads : \/ \E a \in Addrs : AddCheckState(t, a)
                             \/ AddInsert(t) \/ AddFinish(t)

SpecAdd == InitAdd /\ [][NextAdd]_vars

\* ---------------------------------------------------------- construction
\* No call of Add, Remove, Close or CloseGraceful is made.
NoCalls == {{}}

\* ConnectWithOpts alone, with one or two addresses.
ConnectAddrSets == {{"a1"}, {"a2"}, {"a1", "a2"}}

InitConnect == InitPool(ConnectAddrSets, NoCalls)

NextConnect == Construct

SpecConnect == InitConnect /\ [][NextConnect]_vars

\* -------------------------------------------- connection-bound requests
\* A pool left to its controllers, with requests bound to the connections
\* it has dialled.
InitBound == InitPool(InitAddrSets, NoCalls)

NextBound ==
    \/ Construct
    \/ \E e \in EndpointIds :
         \/ ControllerTop(e) \/ ControllerNotify(e)
         \/ ControllerTimerConnect(e) \/ ControllerTimerUpdate(e)
         \/ ControllerTimerReconnect(e)
         \/ TryConnectStart(e) \/ TryConnectLock(e) \/ TryConnectAdd(e)
         \/ UpdateLock(e) \/ UpdateAdd(e)
    \/ \E c \in ConnIds : ConnLost(c)
    \/ \E c \in ConnIds, mode \in Modes : DoConnected(c, mode)

SpecBound == InitBound /\ [][NextBound]_vars

\* --------------------------------------------------------------- watchers
\* A pool left to its controllers, with NewWatcher and Unregister called.
NextWatch ==
    \/ Construct
    \/ \E e \in EndpointIds :
         \/ ControllerTop(e) \/ ControllerNotify(e)
         \/ ControllerTimerConnect(e) \/ ControllerTimerUpdate(e)
         \/ ControllerTimerReconnect(e)
         \/ TryConnectStart(e) \/ TryConnectLock(e) \/ TryConnectAdd(e)
         \/ UpdateLock(e) \/ UpdateAdd(e)
    \/ \E c \in ConnIds : ConnLost(c)
    \/ \E w \in WatcherIds :
         \/ \E mode \in WatcherModes : NewWatcherAdd(w, mode)
         \/ \E c \in ConnIds : NewWatcherWatch(w, c) \/ Callback(w, c)
         \/ NewWatcherReturn(w)
         \/ Unregister(w)

SpecWatch == InitBound /\ [][NextWatch]_vars

\* ----------------------------------------------------------- role updates
\* case <-timer.C with an open connection on a connected pool, with the
\* reply of the probe kept in probe (pc "same": the role probed is the one
\* the endpoint has).
UpdateRole(e) ==
    /\ ep[e].pc = "select"
    /\ ep[e].conn # Nil /\ ~conn[ep[e].conn].closed
    /\ poolsMutex = Nil
    /\ state = connectedState
    /\ \E reply \in PoolReplies, discovered \in BOOLEAN :
         /\ updateConnectionProbed(e, reply, discovered)
         /\ probe' = [pc |-> IF getConnectionRole(reply) = Result(ep[e].role, NoErr)
                              THEN "same" ELSE "done",
                       reply |-> reply, res |-> getConnectionRole(reply)]
    /\ UNCHANGED <<state, addrs, poolsMutex, addrsMutex, ctor, th, route>>

\* A pool over two addresses left to the timers of its controllers, with
\* one call of NewWatcher.
InitUpdate == InitPool({Addrs}, NoCalls)

NextUpdate ==
    \/ Construct
    \/ \E e \in EndpointIds :
         \/ ControllerTop(e) \/ UpdateRole(e)
         \/ ControllerTimerConnect(e)
         \/ TryConnectLock(e) \/ TryConnectAdd(e)
         \/ UpdateLock(e) \/ UpdateAdd(e)
    \/ \E mode \in WatcherModes : NewWatcherAdd(1, mode)
    \/ \E c \in ConnIds : NewWatcherWatch(1, c)
    \/ NewWatcherReturn(1)

SpecUpdate == InitUpdate /\ [][NextUpdate]_vars

\* ------------------------------------------------------------- fairness
\* The Go scheduler runs every runnable goroutine: a controller (or the
\* tryConnect of Add) that can take a step takes one, and so does a caller
\* inside Close, CloseGraceful, Add or Remove.  Whether a call is made at
\* all, whether a connection is lost, and whether a graceful drain ends by
\* itself are up to the environment; conn.CloseGraceful() does return once
\* the connection has been closed.
ControllerStep(e) ==
    \/ ControllerTop(e) \/ ControllerWaitClosed(e)
    \/ ControllerSelectSignal(e) \/ ControllerNotify(e)
    \/ ControllerTimerConnect(e) \/ ControllerTimerUpdate(e)
    \/ ControllerTimerReconnect(e)
    \/ TryConnectStart(e) \/ TryConnectLock(e) \/ TryConnectAdd(e)
    \/ UpdateLock(e) \/ UpdateAdd(e)

ForcedDrainDone(e) == ep[e].conn # Nil /\ conn[ep[e].conn].closed /\ GracefulCloseDone(e)

FairSpec ==
    /\ Spec
    /\ WF_vars(Construct)
    /\ \A e \in EndpointIds : WF_vars(ControllerStep(e)) /\ WF_vars(ForcedDrainDone(e))
    /\ WF_vars(CloseSignal \/ CloseSnapshot \/ CloseReturn)
    /\ WF_vars(CloseGracefulSignal \/ CloseGracefulSnapshot \/ CloseGracefulReturn)
    /\ \A t \in AddThreads : WF_vars(AddInsert(t) \/ AddFinish(t))
    /\ WF_vars(RemoveReturn)

\* ------------------------------------------------------------------ locks
\* A pool over one address with the controllers at work and one call each
\* of Add, Remove and GetPoolInfo.
NextLocks ==
    \/ Construct
    \/ \E e \in EndpointIds :
         \/ ControllerTop(e) \/ GracefulCloseDone(e)
         \/ ControllerSelectSignal(e) \/ ControllerNotify(e)
         \/ ControllerTimerConnect(e) \/ ControllerTimerUpdate(e)
         \/ ControllerTimerReconnect(e)
         \/ TryConnectStart(e) \/ TryConnectLock(e) \/ TryConnectAdd(e)
         \/ UpdateLock(e) \/ UpdateAdd(e)
    \/ \E c \in ConnIds : ConnLost(c)
    \/ \E a \in Addrs : RemoveStart(a)
    \/ RemoveReturn
    \/ \E a \in Addrs : AddCheckState("add", a)
    \/ AddInsert("add") \/ AddFinish("add")
    \/ GetPoolInfoRLock \/ GetPoolInfoRLockPools \/ GetPoolInfoReturn

SpecLocks == InitPool(InitAddrSets, {{"add", "remove", "info"}}) /\ [][NextLocks]_vars

\* ------------------------------------------------------------ convergence
\* The instances settle: from this step on every dial connects, every probe
\* gets the reply kept in probe (role master or replica), the handler
\* accepts and no connection is lost.  A connection is left to dial for
\* every endpoint without a usable one and for the Add still to come.
Settle(reply) ==
    /\ Constructed
    /\ probe.pc = "off"
    /\ getConnectionRole(reply).err = NoErr
    /\ getConnectionRole(reply).role \in {MasterRole, ReplicaRole}
    /\ LET undialled == {e \in EndpointIds :
                           /\ ep[e].used /\ ~ep[e].closed
                           /\ ep[e].owner = "ctl" => ~(ep[e].shutdown \/ ep[e].close)
                           /\ ep[e].conn = Nil \/ conn[ep[e].conn].closed
                           /\ ep[e].lconn = Nil \/ conn[ep[e].lconn].closed}
           adding == {t \in AddThreads : th[t].pc \in {"idle", "insert"} /\ ~th[t].done}
       IN Cardinality(FreeConns) >= Cardinality(undialled) + Cardinality(adding)
    /\ probe' = [pc |-> "settled", reply |-> reply, res |-> getConnectionRole(reply)]
    /\ UNCHANGED <<state, addrs, ep, conn, pools, poolsMutex, addrsMutex, ctor, th, route>>

\* tryConnect on a settled instance: the dial connects, the probe gives the
\* settled role and handlerDiscovered accepts.
SettledConnect(e) ==
    /\ probe.pc = "settled"
    /\ ControllerTimerConnect(e) \/ TryConnectStart(e)
    /\ state = connectedState => ep'[e].pc = "tc_lock" /\ ep'[e].lrole = probe.res.role

\* updateConnection on a settled instance.
SettledUpdate(e) ==
    /\ probe.pc = "settled"
    /\ ep[e].pc = "select"
    /\ ep[e].conn # Nil /\ ~conn[ep[e].conn].closed
    /\ poolsMutex = Nil
    /\ state = connectedState
    /\ updateConnectionProbed(e, probe.reply, TRUE)
    /\ UNCHANGED <<state, addrs, poolsMutex, addrsMutex, ctor, th, probe, route>>

\* The steps of the task of endpoint e, before and after the instances have
\* settled.
ConvergeStep(e) ==
    \/ ControllerTop(e) \/ GracefulCloseDone(e)
    \/ ControllerSelectSignal(e) \/ ControllerNotify(e)
    \/ ControllerTimerReconnect(e)
    \/ TryConnectLock(e) \/ TryConnectAdd(e)
    \/ UpdateLock(e) \/ UpdateAdd(e)
    \/ probe.pc = "off" /\ (ControllerTimerConnect(e) \/ TryConnectStart(e))
    \/ probe.pc = "off" /\ ControllerTimerUpdate(e)
    \/ SettledConnect(e)
    \/ SettledUpdate(e)

\* A pool over one address with no call, or with one Add and one Remove.
InitConverge == InitPool(InitAddrSets, {{}, {"add", "remove"}})

NextConverge ==
    \/ Construct
    \/ \E e \in EndpointIds : ConvergeStep(e)
    \/ \E c \in ConnIds : probe.pc = "off" /\ ConnLost(c)
    \/ \E reply \in PoolReplies : Settle(reply)
    \/ \E a \in Addrs : RemoveStart(a)
    \/ RemoveReturn
    \/ \E a \in Addrs : AddCheckState("add", a)
    \/ AddInsert("add") \/ AddFinish("add")

\* The timer of every controller keeps ticking and a goroutine that waits
\* for a mutex gets it (sync.Mutex hands a starving waiter the lock).
SpecConverge ==
    /\ InitConverge /\ [][NextConverge]_vars
    /\ WF_vars(Construct)
    /\ \A e \in EndpointIds : SF_vars(ConvergeStep(e))
    /\ WF_vars(AddInsert("add") \/ AddFinish("add"))
    /\ WF_vars(RemoveReturn)

\* ================================================================= claims
\* C1: for every mode and every content of the subpools, Do with a free
\* request returns next() of the first non-empty subpool in the mode's
\* order (ANY: any; RW: rw; RO: ro; PreferRW: rw then ro; PreferRO: ro then
\* rw), and only that subpool's cursor has moved; with every tried
\* subpool empty it fails with ErrNoRwInstance for RW, ErrNoRoInstance for RO
\* and ErrNoHealthyInstance for ANY, PreferRW and PreferRO.
C1_DispatchOrder ==
    route.pc = "called" =>
      LET b == route.before
          order == CASE route.mode = ANY -> <<"any">>
                     [] route.mode = RW -> <<"rw">>
                     [] route.mode = RO -> <<"ro">>
                     [] route.mode = PreferRW -> <<"rw", "ro">>
                     [] route.mode = PreferRO -> <<"ro", "rw">>
          full == {i \in 1..Len(order) : Len(b[order[i]].conns) > 0}
          none == CASE route.mode = RW -> ErrNoRwInstance
                    [] route.mode = RO -> ErrNoRoInstance
                    [] OTHER -> ErrNoHealthyInstance
      IN IF full = {}
         THEN route.sel.conn = Nil /\ route.sel.err = none /\ pools = b
         ELSE LET i == CHOOSE j \in full : \A k \in full : j <= k
                  rr == b[order[i]]
              IN /\ route.sel.err = NoErr
                 /\ route.sel.conn = NextConn(rr)
                 /\ pools = [b EXCEPT ![order[i]] = Advance(rr)]

\* PreferRW with an empty rwPool fell back to roPool while anyPool held two
\* connections.
C1_Witness ==
    /\ route.pc = "called" /\ route.mode = PreferRW
    /\ route.sel.pool = "ro" /\ route.sel.conn # Nil
    /\ Len(route.before.rw.conns) = 0 /\ Len(route.before.any.conns) = 2

\* C2: in every reachable state and for every address a, the connection
\* registered under a is in at most one of rwPool and roPool, and a
\* connection registered under a in either of them is registered under a in
\* anyPool.
C2_RoleSubpoolsWithinAny ==
    \A a \in Addrs, c \in ConnIds :
      LET inRW == GetConnByAddr(pools.rw, a) = c
          inRO == GetConnByAddr(pools.ro, a) = c
          inAny == GetConnByAddr(pools.any, a) = c
      IN ~(inRW /\ inRO) /\ ((inRW \/ inRO) => inAny)

\* C3: a connection of role Unknown is never admitted: in every reachable
\* state every connection registered in anyPool is registered in exactly one
\* of rwPool and roPool.
C3_AnyIsRwOrRo ==
    \A a \in Addrs :
      LET c == GetConnByAddr(pools.any, a) IN
      c # Nil => ((GetConnByAddr(pools.rw, a) = c) # (GetConnByAddr(pools.ro, a) = c))

\* C4: the role probe returns Master only for status = "running" and
\* ro = false, Replica only for status = "running" and ro = true, and for
\* every other reply it returns an error (never role Unknown with no error,
\* never a panic).
C4_ProbeClassifies ==
    probe.pc = "done" =>
      LET r == probe.reply
          running(ro) == /\ ~r.err /\ r.resp /\ Len(r.data) >= 1
                         /\ r.data[1].kind = "map"
                         /\ r.data[1].status = "s:running"
                         /\ r.data[1].ro = ro
      IN /\ probe.res.role = MasterRole => running("b:false")
         /\ probe.res.role = ReplicaRole => running("b:true")
         /\ ~(running("b:false") \/ running("b:true")) =>
               (probe.res.role = UnknownRole /\ probe.res.err \notin {NoErr, Panic})

\* C5: after Close() has returned, the three subpools are empty and the
\* closed signal of every endpoint has fired, whatever the controllers and
\* concurrent Add, Remove and CloseGraceful calls did.
C5_CloseLeavesNothing ==
    th["close"].done =>
      /\ Len(pools.rw.conns) = 0 /\ Len(pools.ro.conns) = 0 /\ Len(pools.any.conns) = 0
      /\ \A e \in EndpointIds : ep[e].used => ep[e].closed

\* C6: once the pool state is Shutdown or Closed no step registers a
\* connection in a subpool and no step puts an address into the address
\* map; a connection waiting to be registered is closed instead.
C6_NothingAdmittedAfterConnected ==
    [][LET kept(a) ==
             /\ GetConnByAddr(pools'.rw, a) \in {Nil, GetConnByAddr(pools.rw, a)}
             /\ GetConnByAddr(pools'.ro, a) \in {Nil, GetConnByAddr(pools.ro, a)}
             /\ GetConnByAddr(pools'.any, a) \in {Nil, GetConnByAddr(pools.any, a)}
             /\ (addrs[a] = NoKey => addrs'[a] = NoKey)
           dropped(e) ==
             (ep[e].pc \in {"tc_lock", "tc_add"} /\ ep'[e].pc \notin {"tc_lock", "tc_add"})
               => conn'[ep[e].lconn].closed
       IN state \in {shutdownState, closedState} =>
            ((\A a \in Addrs : kept(a)) /\ (\A e \in EndpointIds : dropped(e)))]_vars

\* C7: under fair scheduling, with a force close and a cancelled dial
\* returning, every call of Close() returns and every controller terminates
\* after the pool state has reached Closed.
C7_CloseAndControllersTerminate ==
    /\ [](th["close"].pc \in {"signal", "snap", "wait"} => <>th["close"].done)
    /\ [](state = closedState =>
            <>(\A e \in EndpointIds : ~(ep[e].owner = "ctl" /\ ep[e].pc # "done")))

\* C8: the pool state only moves forward along unknownState ->
\* connectedState -> (shutdownState ->) closedState: no step takes it from
\* shutdownState or closedState back to connectedState, from closedState to
\* shutdownState, or back to unknownState.
C8_StateMovesForward ==
    [][LET rank(s) == CASE s = unknownState -> 0
                        [] s = connectedState -> 1
                        [] s = shutdownState -> 2
                        [] s = closedState -> 3
       IN rank(state) <= rank(state')]_vars

\* CloseGraceful was called on a pool that Close had already closed: its
\* cas failed, it signalled no endpoint, and the state stayed closedState.
C8_Witness ==
    /\ state = closedState
    /\ th["close"].pc \in {"signal", "snap", "wait"}
    /\ th["graceful"].pc = "snap"
    /\ \A e \in EndpointIds : ~ep[e].shutdown

\* C9: after CloseGraceful() has returned, with no call of Close() at all,
\* the pool state is closedState.
C9_GracefulEndsClosed ==
    (th["graceful"].done /\ th["close"].pc \in {"none", "idle"} /\ ~th["close"].done)
       => state = closedState

C11_GracefulWaitsForDrains ==
    (th["graceful"].done /\ th["close"].pc \in {"none", "idle"} /\ th["close"].calls = 0)
        => \A e \in th["graceful"].reg : ep[e].child = "done"

\* C12: a call of Close or CloseGraceful made in closedState changes neither
\* the state, the address map nor any endpoint's shutdown, close and closed
\* signals; a second Close returns the list of close errors the first one
\* returned, and so does a CloseGraceful called in closedState.
C12_CloseAgainIsNoOp ==
    [][\A t \in {"close", "graceful"} :
         (/\ th'[t] # th[t]
          /\ state = closedState
          /\ th[t].pc = "idle" \/ ~th[t].cas)
         => /\ state' = state
            /\ addrs' = addrs
            /\ \A e \in EndpointIds : /\ ep'[e].shutdown = ep[e].shutdown
                                      /\ ep'[e].close = ep[e].close
                                      /\ ep'[e].closed = ep[e].closed
            /\ (t = "close" /\ th'[t].calls = 2) => th'[t].errs = th[t].errs
            /\ (th'["graceful"].done /\ th'["close"].done)
                  => th'["graceful"].errs = th'["close"].errs]_vars

\* C13: a Remove called when Close has returned, for an address that was in
\* the address map when Close was called (no Add is made in the run, so the
\* addresses of the map are those of the construction), returns at once with
\* the error of an unknown endpoint.
C13_RemoveAfterCloseFails ==
    [][(/\ th["remove"].pc = "idle" /\ th'["remove"] # th["remove"]
        /\ th["close"].calls >= 1
        /\ th["add"].pc = "none"
        /\ addrs[th'["remove"].addr] # NoKey)
       => (th'["remove"].done /\ th'["remove"].err = ErrNotExist)]_vars

\* C14: a Remove of an address that is not in the address map returns an
\* error and changes nothing; a Remove of a known address takes the address
\* out of the map, has returned nil only when the closed signal of the
\* endpoint it found has fired, and when that endpoint is the one an Add
\* put into the map (Add(a), then Remove(a)) GetAddrs gives what it gave
\* before the Add.
C14_RemoveContract ==
    [][LET r == th["remove"]
           r1 == th'["remove"]
           called == r.pc = "idle" /\ r1 # r
       IN /\ (called /\ addrs[r1.addr] = NoKey)
               => /\ r1.done /\ r1.err # NoErr
                  /\ UNCHANGED <<state, addrs, ep, conn, pools>>
          /\ (called /\ addrs[r1.addr] # NoKey)
               => /\ ~r1.done /\ r1.e = addrs[r1.addr]
                  /\ r1.addr \notin GetAddrs'
          /\ (r1.done /\ r1.err = NoErr)
               => /\ ep'[r1.e].closed
                  /\ (th'["add"].done /\ th'["add"].e = r1.e)
                        => (r1.addr \notin GetAddrs' /\ GetAddrs' = th'["add"].before)]_vars

\* Add(a) has put an endpoint into the map and returned nil, and Remove(a)
\* has taken that endpoint out and returned nil.
C14_Witness ==
    /\ th["add"].done /\ th["add"].err = NoErr
    /\ th["remove"].done /\ th["remove"].err = NoErr
    /\ th["remove"].e = th["add"].e /\ th["add"].e # Nil

\* C15: the step by which an Add returns an error leaves the subpools and
\* the running controllers alone and takes out of the address map nothing
\* but the endpoint that this Add put in: the record of an endpoint admitted
\* by another call stays as it is.
C15_FailedAddRollsBackOwn ==
    [][\A t \in AddThreads :
         (~th[t].done /\ th'[t].done /\ th'[t].err # NoErr)
         => /\ pools' = pools
            /\ \A e \in EndpointIds : ep'[e].owner = "ctl" <=> ep[e].owner = "ctl"
            /\ \A b \in Addrs :
                 \/ addrs'[b] = addrs[b]
                 \/ b = th[t].addr /\ addrs[b] = th[t].e /\ addrs'[b] = NoKey]_vars

\* C16: when the pool has left connectedState while the tryConnect of an Add
\* has not yet taken poolsMutex for the second time (it is about to dial, or
\* has dialled and probed), tryConnect returns an error with the dialled
\* connection closed and held by no subpool, and Add returns that error
\* with its endpoint out of the address map and no controller started.
C16_AddAbortsWhenPoolLeavesConnected ==
    [][\A t \in AddThreads :
         LET e == th[t].e
             mine(cs) == {c \in ConnIds : cs[c].used /\ cs[c].ep = e}
         IN /\ (/\ th[t].pc = "connect" /\ state # connectedState
                /\ ep[e].pc \in {"tc_start", "tc_lock"})
               => /\ ep'[e].pc \in {ep[e].pc, "tc_ret"}
                  /\ mine(conn') \cap Pooled' = {}
                  /\ ep'[e].pc = "tc_ret"
                       => /\ ep'[e].lerr # NoErr /\ ep'[e].conn = Nil
                          /\ \A c \in mine(conn') : conn'[c].closed
            /\ (/\ th[t].pc = "connect" /\ th'[t] # th[t]
                /\ ep[e].pc = "tc_ret" /\ ep[e].lerr # NoErr)
               => /\ th'[t].done /\ th'[t].err = ep[e].lerr
                  /\ addrs'[th[t].addr] # e
                  /\ ep'[e].owner # "ctl" /\ ep'[e].closed
                  /\ mine(conn') \cap Pooled' = {}
                  /\ \A c \in mine(conn') : conn'[c].closed]_vars

\* An Add has returned ErrClosed after its tryConnect had dialled a
\* connection: the connection is closed and the address is not in the map.
C16_Witness ==
    \E t \in AddThreads, c \in ConnIds :
      /\ th[t].done /\ th[t].err = ErrClosed
      /\ conn[c].used /\ conn[c].ep = th[t].e /\ conn[c].closed
      /\ c \notin Pooled
      /\ addrs[th[t].addr] = NoKey

\* C17: a step by which the controller of an endpoint reports a new role of
\* its connection finds the connection discovered with the old role, and
\* leaves the handler having seen Deactivated(conn, old role) once and then
\* Discovered(conn, new role) once, which it accepted or refused; no other
\* connection gets a callback in the step.
C17_RoleChangeCallbacks ==
    [][\A e \in EndpointIds :
         LET c == ep[e].conn IN
         (/\ ep[e].pc = "select" /\ c # Nil
          /\ conn'[c].hrole # conn[c].hrole)
         => /\ conn[c].hst = "discovered" /\ conn[c].hrole = ep[e].role
            /\ conn'[c].hst \in {"discovered", "refused"}
            /\ conn'[c].herr = "ok"
            /\ \A d \in ConnIds \ {c} : conn'[d] = conn[d]]_vars

\* updateConnection has seen a new role, and the handler has accepted the
\* connection with it.
C17_Witness ==
    \E e \in EndpointIds :
      /\ ep[e].pc = "uc_lock" /\ ep[e].lrole # ep[e].role
      /\ conn[ep[e].conn].hst = "discovered"
      /\ conn[ep[e].conn].hrole = ep[e].lrole
      /\ conn[ep[e].conn].herr = "ok"

\* C18: a connection held by a subpool, which is what a dispatch can return,
\* has been accepted by the handler's Discovered and not deactivated since;
\* one held by rwPool was discovered as a master and one held by roPool as
\* a replica.
C18_PooledIsDiscovered ==
    /\ \A c \in Pooled : conn[c].hst = "discovered"
    /\ \A c \in GetConnections(pools.rw) : conn[c].hrole = MasterRole
    /\ \A c \in GetConnections(pools.ro) : conn[c].hrole = ReplicaRole

\* C19: when the closed signal of an endpoint has fired, every connection of
\* that endpoint which the handler accepted in Discovered has been reported
\* to it by Deactivated.
C19_ClosedMeansDeactivated ==
    \A c \in ConnIds :
      (conn[c].used /\ ep[conn[c].ep].closed) => conn[c].hst # "discovered"

\* C20: no call of Deactivated breaks the handler's contract: each one is
\* made for a connection whose last callback was a Discovered that returned
\* nil, with the role of that Discovered; none follows a Discovered that
\* returned an error, a Deactivated, or no callback at all (and no
\* Discovered is made for a connection the handler holds as discovered).
C20_DeactivatedAnswersDiscovered ==
    \A c \in ConnIds : conn[c].herr = "ok"

\* Deactivated has been called for a connection of an endpoint, and the
\* endpoint has dialled another one, which the handler accepted or refused.
C20_Witness ==
    \E c, d \in ConnIds :
      /\ c # d /\ conn[c].ep = conn[d].ep
      /\ conn[c].hst = "deactivated" /\ conn[c].herr = "ok"
      /\ conn[d].hst \in {"discovered", "refused"} /\ conn[d].herr = "ok"

\* C21: a connection that the handler's Discovered has refused is closed
\* and held by no subpool, and its endpoint does not keep it; the step in
\* which a controller's endpoint gets the refusal leaves the endpoint
\* disconnected (no connection, UnknownRole).
C21_RefusedIsDropped ==
    [][\A c \in ConnIds :
         conn'[c].hst = "refused"
         => /\ conn'[c].closed
            /\ c \notin Pooled'
            /\ ep'[conn'[c].ep].conn # c
            /\ (conn[c].hst # "refused" /\ ep'[conn'[c].ep].owner = "ctl")
                 => /\ ep'[conn'[c].ep].conn = Nil
                    /\ ep'[conn'[c].ep].role = UnknownRole]_vars

\* C22: a Do with a request bound to a connection that no subpool holds
\* returns ErrUnknownRequest and sends nothing; with the connection held by
\* a subpool the request is sent on that connection; the mode plays no part.
C22_BoundRequestNeedsRegisteredConn ==
    [][(route' # route /\ route'.pc = "bound")
       => LET c == route'.req IN
          IF c \in Pooled
          THEN route'.sel.conn = c /\ route'.sel.err = NoErr
          ELSE route'.sel.conn = Nil /\ route'.sel.err = ErrUnknownRequest]_vars

\* C23: called on a pool in connectedState at a point where addrsMutex and
\* poolsMutex are free, GetPoolInfo has an entry for exactly the addresses
\* of the address map whose endpoint's connection is held by a subpool, with
\* MasterRole iff rwPool holds that connection and ReplicaRole iff roPool
\* holds it.
C23_PoolInfoIsRegistered ==
    (state = connectedState /\ addrsMutex = "free" /\ poolsMutex = Nil)
    => LET c(a) == ep[addrs[a]].conn
           registered == {a \in GetAddrs : addrs[a] # Nil /\ c(a) # Nil /\ c(a) \in Pooled}
       IN /\ DOMAIN GetPoolInfo = registered
          /\ \A a \in registered :
               /\ GetPoolInfo[a].ConnRole = MasterRole
                    <=> c(a) \in GetConnections(pools.rw)
               /\ GetPoolInfo[a].ConnRole = ReplicaRole
                    <=> c(a) \in GetConnections(pools.ro)

\* C24: with the contents of the subpools left alone, two dispatches in a row
\* under ANY (RW, RO) return connections of anyPool (rwPool, roPool), and
\* when the subpool holds two connections they return the one and then the
\* other: every window of N dispatches returns each of the N connections
\* once, hence k*N dispatches return each one k times.
C24_RoundRobinIsFair ==
    (route.pc = "called" /\ route.prev.called
     /\ route.mode = route.prev.mode /\ route.mode \in {ANY, RW, RO})
    => LET rr == CASE route.mode = ANY -> route.before.any
                   [] route.mode = RW -> route.before.rw
                   [] route.mode = RO -> route.before.ro
       IN IF IsEmpty(rr)
          THEN route.sel.conn = Nil /\ route.prev.conn = Nil
          ELSE /\ {route.sel.conn, route.prev.conn} = GetConnections(rr)
               /\ Cardinality(GetConnections(rr)) = Len(rr.conns)

\* Two dispatches in a row under ANY on an anyPool of two connections.
C24_Witness ==
    /\ route.pc = "called" /\ route.prev.called
    /\ route.mode = ANY /\ route.prev.mode = ANY
    /\ Len(route.before.any.conns) = 2
    /\ route.sel.conn # route.prev.conn /\ route.prev.conn # Nil


\* C25: when ConnectWithOpts returns with its context not cancelled, it
\* succeeds iff a connection has been admitted to the subpools; on success
\* the pool is in connectedState and every supplied address has an endpoint
\* with a controller, also an address whose dial or probe failed; otherwise
\* it fails with ErrNoConnection, the pool is in closedState and no
\* controller runs.
C25_ConstructionOutcome ==
    [][(ctor.pc = "fill" /\ ctor'.pc # "fill" /\ ctor.ctx = "live")
       => IF Pooled # {}
          THEN /\ ctor'.pc = "done" /\ ctor'.err = NoErr
               /\ state' = connectedState
               /\ \A a \in GetAddrs :
                    /\ addrs'[a] \in EndpointIds
                    /\ ep'[addrs'[a]].owner = "ctl"
                    /\ ep'[addrs'[a]].pc = "top"
          ELSE /\ ctor'.pc = "failed" /\ ctor'.err = ErrNoConnection
               /\ state' = closedState
               /\ \A e \in EndpointIds : ep'[e].owner = "none"]_vars

\* C25 witness: a pool constructed over two addresses, one of them with no
\* connection, and a controller on the endpoint of each.
C25_Witness ==
    /\ ctor.pc = "done" /\ state = connectedState
    /\ Cardinality(GetAddrs) = 2
    /\ \E e \in InMap : ep[e].conn = Nil /\ ep[e].owner = "ctl"
    /\ \E e \in InMap : ep[e].conn # Nil /\ ep[e].owner = "ctl"

\* C26: when ConnectWithOpts returns and its context was cancelled during
\* fillPools, it fails with ErrContextCanceled, every connection admitted
\* before is out of the subpools, closed and reported with Deactivated, the
\* subpools are empty, the pool is in closedState and no controller runs.
C26_CanceledConstructionFails ==
    [][(ctor.pc = "fill" /\ ctor'.pc # "fill" /\ ctor.ctx = "canceled")
       => /\ ctor'.pc = "failed" /\ ctor'.err = ErrContextCanceled
          /\ Pooled' = {}
          /\ \A c \in Pooled : conn'[c].closed /\ conn'[c].hst = "deactivated"
          /\ state' = closedState
          /\ \A e \in EndpointIds : ep'[e].owner = "none"]_vars


C28_AttachedIffInSubpool ==
    \A w \in WatcherIds, c \in ConnIds :
      LET mode == pools.watchers[w].mode
          rr == CASE mode = RW -> pools.rw
                  [] mode = RO -> pools.ro
                  [] OTHER -> pools.any
      IN (pools.watchers[w].pc = "live" /\ conn[c].used /\ ~conn[c].closed)
         => (c \in pools.watchers[w].att <=> c \in GetConnections(rr))


\* C29: once Unregister() of a watcher has returned, no connection holds a
\* subscription of the watcher and its callback is not invoked again,
\* whatever connections the pool admits afterwards.
C29_NoCallbackAfterUnregister ==
    /\ [](\A w \in WatcherIds :
            pools.watchers[w].pc = "unregistered" => pools.watchers[w].att = {})
    /\ [][\A w \in WatcherIds :
            pools.watchers[w].pc = "unregistered"
            => pools'.watchers[w].calls = pools.watchers[w].calls]_vars

\* C29 witness: a watcher of mode ANY whose callback has been invoked is
\* unregistered, and the subpools hold an open connection to which another
\* watcher is attached.
C29_Witness ==
    \E w \in WatcherIds, v \in WatcherIds, c \in Pooled :
      /\ pools.watchers[w].pc = "unregistered" /\ pools.watchers[w].mode = ANY
      /\ pools.watchers[w].calls = MaxEvents
      /\ ~conn[c].closed
      /\ pools.watchers[v].pc = "live" /\ c \in pools.watchers[v].att


C31_EndpointConnIsRegistered ==
    \A e \in InMap :
      (ep[e].conn # Nil /\ poolsMutex # e)
      => /\ GetConnByAddr(pools.any, ep[e].addr) = ep[e].conn
         /\ ep[e].role = MasterRole => GetConnByAddr(pools.rw, ep[e].addr) = ep[e].conn
         /\ ep[e].role = ReplicaRole => GetConnByAddr(pools.ro, ep[e].addr) = ep[e].conn


\* C32: when the closed channel of an endpoint is closed, no subpool holds
\* the connection of the endpoint record and that connection is closed.
C32_ClosedEndpointHasNoConn ==
    \A e \in EndpointIds :
      (ep[e].used /\ ep[e].closed /\ ep[e].conn # Nil)
      => /\ ep[e].conn \notin Pooled
         /\ conn[ep[e].conn].closed


\* C33: no run closes e.shutdown, e.close or e.closed of an endpoint a
\* second time.
C33_SignalsFireOnce ==
    \A e \in EndpointIds : ~ep[e].panic

\* C33 witness: an endpoint all three of whose channels are closed: a
\* graceful shutdown overtaken by Close, with e.closed closed by the
\* goroutine of the graceful shutdown.
C33_Witness ==
    \E e \in EndpointIds :
      /\ ep[e].shutdown /\ ep[e].close /\ ep[e].closed
      /\ ep[e].child = "done" /\ ep[e].pc = "done"
      /\ ~ep[e].panic


\* C34: an iteration of the controller (a step of its own, not one of the
\* goroutine of the graceful shutdown) that starts with e.close closed and
\* e.closed open takes the case of e.close, whatever e.shutdown, e.notify
\* and the timer offer: with no graceful shutdown started it starts none,
\* closes the connection (if any) and closes e.closed itself; with one
\* running it closes the connection and waits for e.closed, which it leaves
\* to the goroutine of the graceful shutdown.
C34_ClosePriority ==
    [][\A e \in EndpointIds :
         (/\ ep[e].pc = "top" /\ ep[e].close /\ ~ep[e].closed
          /\ \/ ep'[e].pc # ep[e].pc
             \/ ep'[e].lshut # ep[e].lshut
             \/ ep'[e].closed /\ ep'[e].child = ep[e].child)
         => IF ep[e].lshut /\ ep[e].conn # Nil
            THEN /\ ep'[e].pc = "cl_wait"
                 /\ conn'[ep[e].conn].closed
                 /\ ~ep'[e].closed
                 /\ ep'[e].child = ep[e].child
            ELSE /\ ep'[e].closed
                 /\ ep'[e].child = "none" /\ ~ep'[e].lshut
                 /\ ep'[e].pc = "top"
                 /\ ep[e].conn # Nil => conn'[ep[e].conn].closed]_vars

\* C34 witness: e.shutdown and e.close were both closed when the controller,
\* which had started no graceful shutdown, came to the top of its loop; it
\* has closed the connection and e.closed.
C34_Witness ==
    \E e \in EndpointIds :
      /\ ep[e].shutdown /\ ep[e].close /\ ep[e].closed
      /\ ~ep[e].lshut /\ ep[e].child = "none"
      /\ ep[e].conn # Nil /\ conn[ep[e].conn].closed


\* C35: an updateConnection on an open connection whose probe gives the role
\* the endpoint has changes nothing: the subpools with their order and
\* cursors, the watchers and their attachments, the connection and the role
\* of the endpoint are the same, and no handler is called (the handler's
\* view of every connection is the same).
C35_SameRoleIsNoOp ==
    [][\A e \in EndpointIds :
         (/\ ep[e].pc = "select" /\ ep'[e].pc # "select"
          /\ ep[e].conn # Nil /\ ~conn[ep[e].conn].closed
          /\ state = connectedState
          /\ probe'.res = Result(ep[e].role, NoErr))
         => /\ pools' = pools
            /\ conn' = conn
            /\ ep'[e].conn = ep[e].conn /\ ep'[e].role = ep[e].role
            /\ ep'[e].pc = "top"]_vars

\* C35 witness: the last probe gave the role the endpoint had, with two
\* connections in anyPool and a watcher attached.
C35_Witness ==
    /\ probe.pc = "same"
    /\ Len(pools.any.conns) = 2
    /\ \E w \in WatcherIds : pools.watchers[w].pc = "live" /\ pools.watchers[w].att # {}
    /\ \E e \in InMap : ep[e].pc = "top" /\ ep[e].role = probe.res.role
                         /\ ep[e].conn \in Pooled


\* C36: once the instances have settled with role r (every dial connects,
\* every probe gives r, the handler accepts, no connection is lost) on a
\* pool that stays connected, the connection of every endpoint of the
\* address map is eventually, and from then on, open, in anyPool and in the
\* subpool of r, and in no other role subpool.
C36_Converges ==
    (probe.pc = "settled")
    ~> [](\A e \in InMap :
            LET r == probe.res.role
                own == IF r = MasterRole THEN pools.rw ELSE pools.ro
                other == IF r = MasterRole THEN pools.ro ELSE pools.rw
            IN /\ ep[e].conn # Nil /\ ~conn[ep[e].conn].closed
               /\ ep[e].role = r
               /\ GetConnByAddr(pools.any, ep[e].addr) = ep[e].conn
               /\ GetConnByAddr(own, ep[e].addr) = ep[e].conn
               /\ GetConnByAddr(other, ep[e].addr) = Nil)


C38_ConnectedNow ==
    LET held(rr) == {c \in ConnIds : \E i \in 1..Len(rr.conns) : rr.conns[i].conn = c}
        subpools(mode) == CASE mode = ANY -> held(pools.any)
                            [] mode = RW -> held(pools.rw)
                            [] mode = RO -> held(pools.ro)
                            [] OTHER -> held(pools.rw) \cup held(pools.ro)
    IN /\ \A mode \in Modes :
            ConnectedNow(mode) <=> (state = connectedState /\ subpools(mode) # {})
       /\ state # connectedState
          => /\ \A mode \in Modes : ~ConnectedNow(mode)
             /\ DOMAIN GetPoolInfo = {}

\* C38 witness: the pool has left connectedState with a connection still in
\* anyPool and rwPool and an address in the map.
C38_Witness ==
    /\ state \in {shutdownState, closedState}
    /\ ~IsEmpty(pools.any) /\ ~IsEmpty(pools.rw)
    /\ GetAddrs # {}
    /\ \A mode \in Modes : ~ConnectedNow(mode)


\* C39: with Add(a), Remove(a) and Add(a) called concurrently, at most one
\* endpoint record of an address is in use and not yet closed; a step of the
\* task of an endpoint that takes a connection out of the subpools takes
\* out a connection that endpoint has dialled; and an Add that fails deletes
\* from the address map only the record it has inserted.
C39_OneActiveEndpointPerAddress ==
    /\ [](\A a \in Addrs :
            Cardinality({e \in EndpointIds :
                           ep[e].used /\ ep[e].addr = a /\ ~ep[e].closed}) <= 1)
    /\ [][LET held(p) == GetConnections(p.any) \cup GetConnections(p.rw)
                         \cup GetConnections(p.ro)
          IN /\ \A e \in EndpointIds, c \in held(pools) \ held(pools') :
                  ep'[e] # ep[e] => conn[c].ep = e
             /\ \A t \in AddThreads, a \in Addrs :
                  (th[t].pc = "connect" /\ th'[t].pc # "connect"
                   /\ addrs[a] # NoKey /\ addrs'[a] = NoKey)
                  => addrs[a] = th[t].e]_vars


\* C40: once the controller of an endpoint has seen e.shutdown (its local
\* shutdown is true), it stays so, and the controller never reaches the
\* blocking select again: it dials no connection, applies no probe, handles
\* no event of the notify channel and calls no Discovered; it moves only when
\* e.closed or e.close is closed.
C40_QuietAfterShutdown ==
    [][\A e \in EndpointIds :
         ep[e].lshut
         => /\ ep'[e].lshut
            /\ ep'[e].pc \in {"top", "cl_wait", "done"}
            /\ ep'[e].pc # ep[e].pc => (ep[e].closed \/ ep[e].close)
            /\ ep[e].notify => ep'[e].notify
            /\ ep'[e].role = ep[e].role /\ ep'[e].conn = ep[e].conn
            /\ \A c \in ConnIds :
                 /\ (conn'[c].used /\ ~conn[c].used) => conn'[c].ep # e
                 /\ (conn[c].used /\ conn[c].ep = e)
                    => /\ conn'[c].hst = "discovered" => conn[c].hst = "discovered"
                       /\ conn'[c].hrole = conn[c].hrole]_vars

\* C40 witness: a controller that has seen e.shutdown waits for the drain of
\* its connection, with an event of that connection on the notify channel.
C40_Witness ==
    \E e \in EndpointIds :
      /\ ep[e].lshut /\ ep[e].pc = "top" /\ ep[e].child = "run"
      /\ ~ep[e].closed /\ ~ep[e].close
      /\ ep[e].notify

====
